---- MODULE Spec2Model ----
(***************************************************************************)
(* A model of the OriginStamp event deduplication and classification       *)
(* engine: the similarity scorer and classifier (src/src/similarity.py),   *)
(* the tier table (src/src/config.py), the storage operations              *)
(* (src/src/database.py), the ingestion pipeline (src/src/ingestion.py),   *)
(* the content fingerprints (src/src/fingerprinting.py), the digest queue   *)
(* and its timer (src/src/digest.py) and the reliability scoring and       *)
(* verification analysis (src/src/reliability.py).                         *)
(*                                                                         *)
(* Texts and entity values are sequences of one-character strings;         *)
(* identifiers (report ids, authors, tiers, hashes of media) are atomic    *)
(* strings.  Scores are exact rationals <<numerator, denominator>> (the    *)
(* code uses binary floating point; every threshold comparison met in the  *)
(* model is decided the same way by both).  Timestamps are whole seconds;  *)
(* None is NoTime for a timestamp, NoId for a row id and "None" for an     *)
(* identifier.                                                             *)
(***************************************************************************)
EXTENDS Integers, Sequences, FiniteSets, TLC

VARIABLES
    incoming_tweet,   \* classify_tweet: the report being classified
    matches,          \* classify_tweet: the candidate list handed over
    similarity_score, \* classify_tweet: match['similarity_score'] of each candidate
    best_match,       \* classify_tweet: the index in matches of best_match (0: None)
    best_similarity,  \* classify_tweet: best_similarity after the loop
    classification,   \* classify_tweet: the returned dict ([status |-> "NONE"] before the call)
    sentence_model,   \* similarity._model: [loaded, cosine], the embedding capability
    conn_type,        \* database.get_connection_type(): "sqlite" or "postgresql"
    tweets,           \* table tweets
    entity_rows,      \* table entities
    url_rows,         \* table urls
    canonical_events, \* table canonical_events
    reposts,          \* table reposts
    account_metrics,  \* table account_metrics, by account
    nlp_loaded,       \* fingerprinting._nlp is loaded, in each caller's process
    pc,               \* where each caller is in process_tweet ("idle": not in it)
    frame,            \* each caller's locals of process_tweet and its last result
    calls,            \* the calls of process_tweet started
    returned,         \* what create_canonical_event has returned, to whom
    pending_headlines,\* digest._pending_headlines, oldest first
    lock,             \* digest._lock: the thread that holds it ("None": free)
    dpc,              \* where each thread is in digest.py ("idle": not in it)
    dframe,           \* each thread's locals in digest.py and its last result
    adds,             \* the calls of add_headline started
    rcall,            \* the last call into reliability.py and what it returned
    fcall,            \* the last call into fingerprinting.py and what it returned
    current_time,     \* get_current_et(): the clock, in seconds
    last_digest_time  \* digest._last_digest_time (NoTime: None)

cvars == <<incoming_tweet, matches, similarity_score, best_match, best_similarity,
           classification>>
svars == <<conn_type, tweets, entity_rows, url_rows, canonical_events, reposts,
           account_metrics>>
pvars == <<nlp_loaded, pc, frame, calls, returned>>
dvars == <<pending_headlines, lock, dpc, dframe, adds>>
rvars == <<rcall>>
fvars == <<fcall>>
tvars == <<current_time, last_digest_time>>
vars == <<incoming_tweet, matches, similarity_score, best_match, best_similarity,
          classification, sentence_model, conn_type, tweets, entity_rows, url_rows,
          canonical_events, reposts, account_metrics, nlp_loaded, pc, frame, calls,
          returned, pending_headlines, lock, dpc, dframe, adds, rcall, fcall, current_time, last_digest_time>>

(***************************************************************************)
(* None values                                                             *)
(***************************************************************************)
NoTime == -1
NoId == 0
NoneStr == "None"

(***************************************************************************)
(* Exact rational arithmetic (Python float arithmetic in the source)       *)
(***************************************************************************)
RECURSIVE GCD(_, _)
GCD(a, b) == IF b = 0 THEN a ELSE GCD(b, a % b)

Abs(x) == IF x < 0 THEN -x ELSE x

Frac(n, d) == LET g == GCD(Abs(n), d) IN <<n \div g, d \div g>>

RInt(n) == <<n, 1>>
RAdd(x, y) == Frac(x[1] * y[2] + y[1] * x[2], x[2] * y[2])
RSub(x, y) == Frac(x[1] * y[2] - y[1] * x[2], x[2] * y[2])
RMul(x, y) == Frac(x[1] * y[1], x[2] * y[2])
RLt(x, y) == x[1] * y[2] < y[1] * x[2]
RGt(x, y) == RLt(y, x)
RGe(x, y) == ~RLt(x, y)

\* round(x, 2): the nearest hundredth, a tie going to the even hundredth
Round2(x) ==
    LET s == x[1] * 100
        q == s \div x[2]
        r == s % x[2]
        k == IF 2 * r > x[2] THEN q + 1
             ELSE IF 2 * r < x[2] THEN q
             ELSE IF q % 2 = 0 THEN q ELSE q + 1
    IN  Frac(k, 100)

(***************************************************************************)
(* Strings                                                                 *)
(***************************************************************************)
UpperLetters == <<"A", "B", "C", "D", "E", "F", "G", "H", "I", "J", "K", "L", "M",
                  "N", "O", "P", "Q", "R", "S", "T", "U", "V", "W", "X", "Y", "Z">>
LowerLetters == <<"a", "b", "c", "d", "e", "f", "g", "h", "i", "j", "k", "l", "m",
                  "n", "o", "p", "q", "r", "s", "t", "u", "v", "w", "x", "y", "z">>

UpperSet == {UpperLetters[i] : i \in DOMAIN UpperLetters}
LowerOfUpper ==
    [c \in UpperSet |-> LowerLetters[CHOOSE i \in DOMAIN UpperLetters : UpperLetters[i] = c]]

IsUpper(c) == c \in UpperSet
LowerChar(c) == IF IsUpper(c) THEN LowerOfUpper[c] ELSE c

\* str.lower()
Lower(s) == [i \in DOMAIN s |-> LowerChar(s[i])]

IsSpace(c) == c = " "

\* str.strip()
Strip(s) ==
    IF \A i \in DOMAIN s : IsSpace(s[i]) THEN <<>>
    ELSE LET lo == CHOOSE i \in DOMAIN s :
                       ~IsSpace(s[i]) /\ \A j \in 1..(i - 1) : IsSpace(s[j])
             hi == CHOOSE i \in DOMAIN s :
                       ~IsSpace(s[i]) /\ \A j \in (i + 1)..Len(s) : IsSpace(s[j])
         IN  SubSeq(s, lo, hi)

\* the positions <<i, j>> of the words of s: maximal runs without whitespace
WordSpans(s) ==
    {<<i, j>> \in (DOMAIN s) \X (DOMAIN s) :
        /\ i <= j
        /\ \A k \in i..j : ~IsSpace(s[k])
        /\ (i = 1 \/ IsSpace(s[i - 1]))
        /\ (j = Len(s) \/ IsSpace(s[j + 1]))}

\* set(s.split())
TokenSet(s) == {SubSeq(s, w[1], w[2]) : w \in WordSpans(s)}

\* len(s.split())
WordCount(s) == Cardinality(WordSpans(s))

\* set(list)
Range(s) == {s[i] : i \in DOMAIN s}

(***************************************************************************)
(* config.py                                                               *)
(***************************************************************************)
SIMILARITY_THRESHOLD_REPOST == 85
SIMILARITY_THRESHOLD_UPDATE == 70
LOOKBACK_MINUTES_INDEPENDENT == 5

\* get_tier_priority with TIER_ORDER.get(tier, 0): an unlisted tier ranked ahead
\* of every listed one
get_tier_priority_default_zero(tier) ==
    CASE tier = "1A_OSINT" -> 1
      [] tier = "1B_OFFICIAL" -> 2
      [] tier = "1C_WIRE" -> 3
      [] tier = "2_AMPLIFIER" -> 4
      [] tier = "3_SECONDARY" -> 5
      [] tier = "3_VERIFICATION" -> 5
      [] OTHER -> 0

\* TIER_ORDER.get(tier, 99)
get_tier_priority(tier) ==
    CASE tier = "1A_OSINT" -> 1
      [] tier = "1B_OFFICIAL" -> 2
      [] tier = "1C_WIRE" -> 3
      [] tier = "2_AMPLIFIER" -> 4
      [] tier = "3_SECONDARY" -> 5
      [] tier = "3_VERIFICATION" -> 5
      [] OTHER -> 99

(***************************************************************************)
(* similarity.py                                                           *)
(***************************************************************************)
\* difflib.SequenceMatcher.find_longest_match without junk: the longest block
\* a[i..i+k-1] = b[j..j+k-1] inside a[alo..ahi-1], b[blo..bhi-1]; of the longest
\* the one starting earliest in a, and of those the one starting earliest in b
find_longest_match(a, b, alo, ahi, blo, bhi) ==
    LET Blocks == {t \in (alo..(ahi - 1)) \X (blo..(bhi - 1)) \X (1..(ahi - alo)) :
                      /\ t[1] + t[3] <= ahi
                      /\ t[2] + t[3] <= bhi
                      /\ \A d \in 0..(t[3] - 1) : a[t[1] + d] = b[t[2] + d]}
    IN  IF Blocks = {} THEN <<alo, blo, 0>>
        ELSE CHOOSE t \in Blocks : \A u \in Blocks :
                 \/ t[3] > u[3]
                 \/ t[3] = u[3] /\ t[1] < u[1]
                 \/ t[3] = u[3] /\ t[1] = u[1] /\ t[2] <= u[2]

\* the total size of difflib.SequenceMatcher.get_matching_blocks
RECURSIVE matching_size(_, _, _, _, _, _)
matching_size(a, b, alo, ahi, blo, bhi) ==
    LET m == find_longest_match(a, b, alo, ahi, blo, bhi)
        i == m[1]
        j == m[2]
        k == m[3]
    IN  IF k = 0 THEN 0
        ELSE k
             + (IF alo < i /\ blo < j THEN matching_size(a, b, alo, i, blo, j) ELSE 0)
             + (IF i + k < ahi /\ j + k < bhi
                THEN matching_size(a, b, i + k, ahi, j + k, bhi) ELSE 0)

\* difflib.SequenceMatcher(None, a, b).ratio() = 2.0 * matches / (len(a) + len(b))
sequence_ratio(a, b) ==
    IF Len(a) + Len(b) = 0 THEN RInt(1)
    ELSE Frac(2 * matching_size(a, b, 1, Len(a) + 1, 1, Len(b) + 1), Len(a) + Len(b))

\* the cosine of the two embeddings: 1 for one text embedded twice
cosine_similarity(text1, text2) ==
    IF text1 = text2 THEN RInt(1) ELSE sentence_model.cosine

calculate_text_similarity(t1, t2) ==
    IF t1 = <<>> \/ t2 = <<>> THEN RInt(0)
    ELSE
    LET text1 == Strip(Lower(t1))
        text2 == Strip(Lower(t2))
        char_score == RMul(sequence_ratio(text1, text2), RInt(100))
        tokens1 == TokenSet(text1)
        tokens2 == TokenSet(text2)
        token_score ==
            IF tokens1 = {} \/ tokens2 = {} THEN RInt(0)
            ELSE RMul(Frac(Cardinality(tokens1 \cap tokens2),
                           Cardinality(tokens1 \cup tokens2)), RInt(100))
        semantic_score ==
            RMul(Frac(1, 2), RMul(RAdd(cosine_similarity(text1, text2), RInt(1)), RInt(100)))
    IN  IF sentence_model.loaded
        THEN RAdd(RAdd(RMul(char_score, Frac(25, 100)), RMul(token_score, Frac(25, 100))),
                  RMul(semantic_score, Frac(50, 100)))
        ELSE RAdd(RMul(char_score, Frac(5, 10)), RMul(token_score, Frac(5, 10)))

calculate_entity_overlap(entities1, entities2) ==
    IF entities1 = <<>> \/ entities2 = <<>> THEN RInt(0)
    ELSE
    LET values1 == {Lower(entities1[i].value) : i \in DOMAIN entities1}
        values2 == {Lower(entities2[i].value) : i \in DOMAIN entities2}
        intersection == Cardinality(values1 \cap values2)
        union == Cardinality(values1 \cup values2)
    IN  IF union = 0 THEN RInt(0) ELSE RMul(Frac(intersection, union), RInt(100))

calculate_media_similarity(media_hashes1, media_hashes2) ==
    IF media_hashes1 = <<>> \/ media_hashes2 = <<>> THEN RInt(0)
    ELSE IF Range(media_hashes1) \cap Range(media_hashes2) # {} THEN RInt(100)
    ELSE RInt(0)

calculate_url_similarity(urls1, urls2) ==
    IF urls1 = <<>> \/ urls2 = <<>> THEN RInt(0)
    ELSE IF Range(urls1) \cap Range(urls2) # {} THEN RInt(100)
    ELSE RInt(0)

calculate_similarity_score(tweet_a, tweet_b) ==
    LET text_sim == calculate_text_similarity(tweet_a.text_normalized, tweet_b.text_normalized)
        entity_overlap == calculate_entity_overlap(tweet_a.entities, tweet_b.entities)
        media_sim == calculate_media_similarity(tweet_a.media_hashes, tweet_b.media_hashes)
        url_sim == calculate_url_similarity(tweet_a.urls_canonical, tweet_b.urls_canonical)
    IN  RAdd(RAdd(RAdd(RMul(text_sim, Frac(40, 100)),
                       RMul(entity_overlap, Frac(25, 100))),
                  RMul(media_sim, Frac(20, 100))),
             RMul(url_sim, Frac(15, 100)))

detect_new_information(tweet_new, tweet_old) ==
    LET new_entities == Len(tweet_new.entities)
        old_entities == Len(tweet_old.entities)
        new_media == Len(tweet_new.media_hashes)
        old_media == Len(tweet_old.media_hashes)
        old_urls == Range(tweet_old.urls_canonical)
        new_urls == Range(tweet_new.urls_canonical)
        old_word_count == WordCount(tweet_old.text_normalized)
        new_word_count == WordCount(tweet_new.text_normalized)
    IN  \/ new_entities > old_entities + 2
        \/ new_media > old_media
        \/ new_urls \ old_urls # {}
        \/ old_word_count > 0 /\ 10 * new_word_count > 13 * old_word_count

(***************************************************************************)
(* utils/timezone.py                                                       *)
(***************************************************************************)
\* the display string, kept as its parts: [kind, a, b] for "<a>d <b>h ago",
\* "<a>h <b>m ago", "<a>m ago"
format_time_delta_seconds(seconds) ==
    LET minutes == seconds \div 60
        hours == minutes \div 60
        days == hours \div 24
    IN  IF seconds < 0 THEN [kind |-> "In the future", a |-> 0, b |-> 0]
        ELSE IF seconds < 60 THEN [kind |-> "Just now", a |-> 0, b |-> 0]
        ELSE IF days > 0 THEN [kind |-> "d h ago", a |-> days, b |-> hours % 24]
        ELSE IF hours > 0 THEN [kind |-> "h m ago", a |-> hours, b |-> minutes % 60]
        ELSE [kind |-> "m ago", a |-> minutes, b |-> 0]

FirstReport == [kind |-> "First report", a |-> 0, b |-> 0]

(***************************************************************************)
(* fingerprinting.py                                                       *)
(***************************************************************************)
\* the printable ASCII characters (but the backquote) in code-point order, for
\* sorted()
Ascii ==
    <<" ", "!", "\"", "#", "$", "%", "&", "'", "(", ")", "*", "+", ",", "-", ".", "/", "0", "1", "2", "3", "4", "5", "6", "7", "8", "9", ":", ";", "<", "=", ">", "?", "@", "A", "B", "C", "D", "E", "F", "G", "H", "I", "J", "K", "L", "M", "N", "O", "P", "Q", "R", "S", "T", "U", "V", "W", "X", "Y", "Z", "[", "\\", "]", "^", "_", "a", "b", "c", "d", "e", "f", "g", "h", "i", "j", "k", "l", "m", "n", "o", "p", "q", "r", "s", "t", "u", "v", "w", "x", "y", "z", "{", "|", "}", "~">>

Ord == [c \in Range(Ascii) |-> CHOOSE i \in DOMAIN Ascii : Ascii[i] = c]

Digits == <<"0", "1", "2", "3", "4", "5", "6", "7", "8", "9">>

IsLower(c) == c \in Range(LowerLetters)
IsLetter(c) == IsUpper(c) \/ IsLower(c)
IsDigit(c) == c \in Range(Digits)
\* \w
IsWordChar(c) == IsLetter(c) \/ IsDigit(c) \/ c = "_"

Min(S) == CHOOSE x \in S : \A y \in S : x <= y

\* s[i..] begins with w
StartsWith(s, i, w) == i + Len(w) - 1 <= Len(s) /\ SubSeq(s, i, i + Len(w) - 1) = w

\* s[i..] begins with w, ignoring case (re.IGNORECASE)
StartsWithIgnoreCase(s, i, w) == i + Len(w) - 1 <= Len(s) /\ Lower(SubSeq(s, i, i + Len(w) - 1)) = Lower(w)

\* the index after the run of \S, of \w, of \d and of letters that starts at i
NonSpaceRunEnd(s, i) == Min({j \in i..(Len(s) + 1) : j = Len(s) + 1 \/ IsSpace(s[j])})
WordRunEnd(s, i) == Min({j \in i..(Len(s) + 1) : j = Len(s) + 1 \/ ~IsWordChar(s[j])})
DigitRunEnd(s, i) == Min({j \in i..(Len(s) + 1) : j = Len(s) + 1 \/ ~IsDigit(s[j])})
LetterRunEnd(s, i) == Min({j \in i..(Len(s) + 1) : j = Len(s) + 1 \/ ~IsLetter(s[j])})

\* \b between s[i-1] and s[i]
WordBoundary(s, i) ==
    LET before == i - 1 >= 1 /\ i - 1 <= Len(s) /\ IsWordChar(s[i - 1])
        after == i >= 1 /\ i <= Len(s) /\ IsWordChar(s[i])
    IN  before # after

\* the characters of s at the indices in K, in order
RECURSIVE KeepIndices(_, _, _)
KeepIndices(s, K, i) ==
    IF i > Len(s) THEN <<>>
    ELSE (IF i \in K THEN <<s[i]>> ELSE <<>>) \o KeepIndices(s, K, i + 1)

Http == <<"h", "t", "t", "p">>
Www == <<"w", "w", "w">>

\* re.sub(r'http\S+|www\S+', '', text) from index i
RECURSIVE remove_urls(_, _)
remove_urls(s, i) ==
    IF i > Len(s) THEN <<>>
    ELSE IF \/ StartsWith(s, i, Http) /\ i + 4 <= Len(s) /\ ~IsSpace(s[i + 4])
            \/ StartsWith(s, i, Www) /\ i + 3 <= Len(s) /\ ~IsSpace(s[i + 3])
    THEN remove_urls(s, NonSpaceRunEnd(s, i))
    ELSE <<s[i]>> \o remove_urls(s, i + 1)

\* re.sub(r'@\w+', '', text) from index i
RECURSIVE remove_mentions(_, _)
remove_mentions(s, i) ==
    IF i > Len(s) THEN <<>>
    ELSE IF s[i] = "@" /\ i + 1 <= Len(s) /\ IsWordChar(s[i + 1])
    THEN remove_mentions(s, WordRunEnd(s, i + 1))
    ELSE <<s[i]>> \o remove_mentions(s, i + 1)

\* re.sub(r'#(\w+)', r'\1', text): a '#' followed by \w is dropped, the word kept
keep_hashtag_words(s) ==
    KeepIndices(s, {i \in DOMAIN s : ~(s[i] = "#" /\ i + 1 <= Len(s) /\ IsWordChar(s[i + 1]))}, 1)

\* re.sub(r'[^\w\s]', '', text)
remove_punctuation(s) == KeepIndices(s, {i \in DOMAIN s : IsWordChar(s[i]) \/ IsSpace(s[i])}, 1)

\* ' '.join(text.split()): of each run of whitespace between two words one space
\* stays, leading and trailing whitespace goes
join_split(s) ==
    KeepIndices(s, {i \in DOMAIN s :
                       \/ ~IsSpace(s[i])
                       \/ /\ i > 1
                          /\ ~IsSpace(s[i - 1])
                          /\ \E j \in (i + 1)..Len(s) : ~IsSpace(s[j])}, 1)

normalize_text(text) ==
    IF text = <<>> THEN <<>>
    ELSE Strip(join_split(remove_punctuation(Lower(
             keep_hashtag_words(remove_mentions(remove_urls(text, 1), 1))))))

\* hashlib.sha256(...).hexdigest(): one digest per string, no two strings sharing one
sha256(s) == [sha256 |-> s]

hash_text(text) == sha256(normalize_text(text))

\* what the spaCy model recognises: doc.ents as <<label, text>>, here the names of a
\* fixed gazetteer where they stand as words of their own
GazetteerNames == <<<<"T", "e", "h", "r", "a", "n">>,
                    <<"I", "D", "F">>>>
GazetteerLabels == <<"GPE", "ORG">>

\* re.findall(r'\b(w1|w2|...)\b', text, re.IGNORECASE) from index i: at each index
\* the first alternative that matches with a word boundary on both sides
RECURSIVE findall_words(_, _, _)
findall_words(s, i, words) ==
    IF i > Len(s) THEN <<>>
    ELSE LET hits == {k \in DOMAIN words :
                         /\ StartsWithIgnoreCase(s, i, words[k])
                         /\ WordBoundary(s, i + Len(words[k]))}
         IN  IF WordBoundary(s, i) /\ hits # {}
             THEN LET n == Len(words[Min(hits)])
                  IN  <<SubSeq(s, i, i + n - 1)>> \o findall_words(s, i + n, words)
             ELSE findall_words(s, i + 1, words)

\* doc.ents of the gazetteer, in text order, as entity dicts (case-sensitive names)
RECURSIVE doc_ents(_, _)
doc_ents(s, i) ==
    IF i > Len(s) THEN <<>>
    ELSE LET hits == {k \in DOMAIN GazetteerNames :
                         /\ StartsWith(s, i, GazetteerNames[k])
                         /\ WordBoundary(s, i + Len(GazetteerNames[k]))}
         IN  IF WordBoundary(s, i) /\ hits # {}
             THEN LET k == Min(hits)
                      n == Len(GazetteerNames[k])
                  IN  <<[type |-> GazetteerLabels[k], value |-> SubSeq(s, i, i + n - 1)]>>
                      \o doc_ents(s, i + n)
             ELSE doc_ents(s, i + 1)

\* the end (last index) of a match of r'\b([A-Z]-\d+[A-Z]?)\b' at i, or 0
designator_match(s, i) ==
    IF /\ WordBoundary(s, i)
       /\ i + 2 <= Len(s)
       /\ IsLetter(s[i])
       /\ s[i + 1] = "-"
       /\ IsDigit(s[i + 2])
    THEN LET d == DigitRunEnd(s, i + 2)
         IN  IF d <= Len(s) /\ IsLetter(s[d]) /\ WordBoundary(s, d + 1) THEN d
             ELSE IF WordBoundary(s, d) THEN d - 1
             ELSE 0
    ELSE 0

\* the end (last index) of a match of r'\b([A-Z]{2,}-\d+)\b' at i, or 0
unit_designator_match(s, i) ==
    IF WordBoundary(s, i) /\ i <= Len(s) /\ IsLetter(s[i])
    THEN LET l == LetterRunEnd(s, i)
         IN  IF /\ l - i >= 2
                /\ l + 1 <= Len(s)
                /\ s[l] = "-"
                /\ IsDigit(s[l + 1])
                /\ WordBoundary(s, DigitRunEnd(s, l + 1))
             THEN DigitRunEnd(s, l + 1) - 1
             ELSE 0
    ELSE 0

RECURSIVE findall_designators(_, _)
findall_designators(s, i) ==
    IF i > Len(s) THEN <<>>
    ELSE LET e == designator_match(s, i)
         IN  IF e # 0 THEN <<SubSeq(s, i, e)>> \o findall_designators(s, e + 1)
             ELSE findall_designators(s, i + 1)

RECURSIVE findall_unit_designators(_, _)
findall_unit_designators(s, i) ==
    IF i > Len(s) THEN <<>>
    ELSE LET e == unit_designator_match(s, i)
         IN  IF e # 0 THEN <<SubSeq(s, i, e)>> \o findall_unit_designators(s, e + 1)
             ELSE findall_unit_designators(s, i + 1)

\* the alternatives of weapon_patterns[2..5] and of military_orgs[0..2]; an
\* optional last letter as the longer alternative first
WeaponSystems == <<<<"I", "r", "o", "n", " ", "D", "o", "m", "e">>,
                   <<"A", "r", "r", "o", "w">>,
                   <<"P", "a", "t", "r", "i", "o", "t">>,
                   <<"T", "H", "A", "A", "D">>>>
WeaponTanks == <<<<"M", "e", "r", "k", "a", "v", "a">>,
                 <<"A", "b", "r", "a", "m", "s">>,
                 <<"L", "e", "o", "p", "a", "r", "d">>>>
WeaponMissiles == <<<<"S", "e", "j", "j", "i", "l">>,
                    <<"S", "h", "a", "h", "a", "b">>,
                    <<"F", "a", "t", "e", "h">>,
                    <<"E", "m", "a", "d">>>>
WeaponAntiTank == <<<<"K", "o", "r", "n", "e", "t">>,
                    <<"J", "a", "v", "e", "l", "i", "n">>,
                    <<"T", "O", "W">>,
                    <<"M", "i", "l", "a", "n">>>>
MilitaryOrgs == <<<<"I", "D", "F">>,
                  <<"I", "R", "G", "C">>,
                  <<"H", "e", "z", "b", "o", "l", "l", "a", "h">>,
                  <<"H", "a", "m", "a", "s">>,
                  <<"P", "I", "J">>,
                  <<"H", "o", "u", "t", "h", "i", "s">>,
                  <<"H", "o", "u", "t", "h", "i">>>>
MilitaryForces == <<<<"Q", "u", "d", "s", " ", "F", "o", "r", "c", "e">>,
                    <<"R", "e", "v", "o", "l", "u", "t", "i", "o", "n", "a", "r", "y", " ", "G", "u", "a", "r", "d">>>>
MilitaryAgencies == <<<<"M", "o", "s", "s", "a", "d">>,
                      <<"S", "h", "i", "n", " ", "B", "e", "t">>,
                      <<"A", "M", "A", "N">>>>

\* the matches of the six weapon_patterns, pattern by pattern
weapon_matches(text) ==
    findall_designators(text, 1) \o findall_unit_designators(text, 1)
    \o findall_words(text, 1, WeaponSystems) \o findall_words(text, 1, WeaponTanks)
    \o findall_words(text, 1, WeaponMissiles) \o findall_words(text, 1, WeaponAntiTank)

\* the matches of the three military_orgs patterns, pattern by pattern
military_matches(text) ==
    findall_words(text, 1, MilitaryOrgs) \o findall_words(text, 1, MilitaryForces)
    \o findall_words(text, 1, MilitaryAgencies)

\* the military-organisation loop over found[n..]: a match is appended unless an
\* entity with that value, ignoring case, is already in the list
RECURSIVE add_military_orgs(_, _, _)
add_military_orgs(ents, found, n) ==
    IF n > Len(found) THEN ents
    ELSE IF \E k \in DOMAIN ents : Lower(ents[k].value) = Lower(found[n])
    THEN add_military_orgs(ents, found, n + 1)
    ELSE add_military_orgs(Append(ents, [type |-> "MILITARY_ORG", value |-> found[n]]),
                           found, n + 1)

\* extract_entities; nlp_ok: get_nlp() and nlp(text) raise nothing. A failure
\* anywhere in the body returns []
extract_entities(text, nlp_ok) ==
    IF text = <<>> THEN <<>>
    ELSE IF ~nlp_ok THEN <<>>
    ELSE LET found == weapon_matches(text)
             weapons == [k \in DOMAIN found |-> [type |-> "WEAPON", value |-> found[k]]]
         IN  add_military_orgs(doc_ents(text, 1) \o weapons, military_matches(text), 1)

\* the characters a URL match runs over: [^\s<>"{}|\\^`\[\]], the backquote being
\* no character of Ascii
IsUrlChar(c) == ~IsSpace(c) /\ c \notin {"<", ">", "\"", "{", "}", "|", "\\", "^", "[", "]"}
UrlRunEnd(s, i) == Min({j \in i..(Len(s) + 1) : j = Len(s) + 1 \/ ~IsUrlChar(s[j])})

HttpScheme == <<"h", "t", "t", "p", ":", "/", "/">>
HttpsScheme == <<"h", "t", "t", "p", "s", ":", "/", "/">>

\* str.rstrip(chars)
RECURSIVE RStrip(_, _)
RStrip(s, chars) ==
    IF s # <<>> /\ s[Len(s)] \in chars THEN RStrip(SubSeq(s, 1, Len(s) - 1), chars) ELSE s

\* str.replace(old, '') from index i
RECURSIVE RemoveAll(_, _, _)
RemoveAll(s, old, i) ==
    IF i > Len(s) THEN <<>>
    ELSE IF StartsWith(s, i, old) THEN RemoveAll(s, old, i + Len(old))
    ELSE <<s[i]>> \o RemoveAll(s, old, i + 1)

\* re.findall(url_pattern, text) from index i
RECURSIVE findall_urls(_, _)
findall_urls(s, i) ==
    IF i > Len(s) THEN <<>>
    ELSE LET n == IF StartsWith(s, i, HttpsScheme) THEN 8
                  ELSE IF StartsWith(s, i, HttpScheme) THEN 7 ELSE 0
         IN  IF n # 0 /\ i + n <= Len(s) /\ IsUrlChar(s[i + n])
             THEN <<SubSeq(s, i, UrlRunEnd(s, i) - 1)>> \o findall_urls(s, UrlRunEnd(s, i))
             ELSE findall_urls(s, i + 1)

\* canonicalize_url of a URL found by url_pattern that has no '?' and no ';' (no
\* query, no params): scheme, netloc lower-cased without 'www.', path without its
\* trailing slashes, the fragment dropped
canonicalize_url(url) ==
    IF url = <<>> THEN <<>>
    ELSE LET hash == Min({j \in 1..(Len(url) + 1) : j = Len(url) + 1 \/ url[j] = "#"})
             whole == SubSeq(url, 1, hash - 1)
             colon == Min({j \in DOMAIN whole : whole[j] = ":"})
             scheme == Lower(SubSeq(whole, 1, colon - 1))
             rest == SubSeq(whole, colon + 3, Len(whole))
             slash == Min({j \in 1..(Len(rest) + 1) : j = Len(rest) + 1 \/ rest[j] = "/"})
             netloc == SubSeq(rest, 1, slash - 1)
             path == SubSeq(rest, slash, Len(rest))
             domain == RemoveAll(Lower(netloc), <<"w", "w", "w", ".">>, 1)
         IN  scheme \o <<":", "/", "/">> \o domain \o RStrip(path, {"/"})

\* extract_urls: the canonical form of each URL found, in text order
extract_urls(text) ==
    LET found == findall_urls(text, 1)
    IN  [k \in DOMAIN found |->
            canonicalize_url(RStrip(found[k], {".", ",", ";", ":", "!", "?", ")"}))]

\* str < str by code points
RECURSIVE StrLess(_, _)
StrLess(a, b) ==
    IF b = <<>> THEN FALSE
    ELSE IF a = <<>> THEN TRUE
    ELSE IF a[1] # b[1] THEN Ord[a[1]] < Ord[b[1]]
    ELSE StrLess(Tail(a), Tail(b))

\* a list left in the order given
order_given(l) ==
    l

\* sorted(list of str)
RECURSIVE sorted(_)
sorted(l) ==
    IF l = <<>> THEN <<>>
    ELSE LET least == Min({i \in DOMAIN l : \A j \in DOMAIN l : ~StrLess(l[j], l[i])})
         IN  <<l[least]>> \o sorted(SubSeq(l, 1, least - 1) \o SubSeq(l, least + 1, Len(l)))

\* '|'.join(list of str)
RECURSIVE join_bar(_)
join_bar(l) ==
    IF l = <<>> THEN <<>>
    ELSE IF Len(l) = 1 THEN l[1]
    ELSE l[1] \o <<"|">> \o join_bar(Tail(l))

KeyEntityTypes == {"GPE", "LOC", "ORG", "WEAPON", "MILITARY_ORG"}

\* generate_event_hash with the entities and the canonical URLs given
generate_event_hash(text, ents, urls_canonical) ==
    LET norm_text == normalize_text(text)
        keyed == SelectSeq(ents, LAMBDA e : e.type \in KeyEntityTypes)
        key_entities == sorted([k \in DOMAIN keyed |-> Lower(keyed[k].value)])
        canonical_urls == sorted(urls_canonical)
    IN  sha256(norm_text \o <<"|">> \o join_bar(key_entities) \o <<"|">> \o join_bar(canonical_urls))

\* create_tweet_fingerprint({'text': text})
create_tweet_fingerprint(text, nlp_ok) ==
    LET found == extract_entities(text, nlp_ok)
        urls_canonical == extract_urls(text)
    IN  [text_normalized |-> normalize_text(text),
         text_hash |-> hash_text(text),
         event_hash |-> generate_event_hash(text, found, urls_canonical),
         entities |-> found,
         urls_canonical |-> urls_canonical]

(***************************************************************************)
(* similarity.py: classify_tweet                                           *)
(***************************************************************************)
\* the loop of classify_tweet over the scores of matches[1..n]: <<index of
\* best_match or 0, best_similarity>>; a later candidate replaces the best only
\* with a strictly greater score
RECURSIVE best_match_scan(_, _)
best_match_scan(scores, n) ==
    IF n = 0 THEN <<0, RInt(0)>>
    ELSE LET prev == best_match_scan(scores, n - 1)
         IN  IF RGt(scores[n], prev[2]) THEN <<n, scores[n]>> ELSE prev

\* match['similarity_score'] = calculate_similarity_score(incoming_tweet, match)
similarity_scores(incoming, ms) ==
    [i \in DOMAIN ms |-> calculate_similarity_score(incoming, ms[i])]

\* a or b on two optional timestamps
OrTime(a, b) == IF a # NoTime THEN a ELSE b

\* original_result with the confidence of the empty-list return on every path
original_result_always_100(confidence) ==
    [status |-> "ORIGINAL",
     confidence |-> RInt(100),
     canonical_event_id |-> NoId,
     original_tweet_id |-> NoneStr,
     original_timestamp |-> NoTime,
     original_source |-> NoneStr,
     time_delta_seconds |-> 0,
     time_delta_display |-> FirstReport,
     added_new_info |-> FALSE]

original_result(confidence) ==
    [status |-> "ORIGINAL",
     confidence |-> confidence,
     canonical_event_id |-> NoId,
     original_tweet_id |-> NoneStr,
     original_timestamp |-> NoTime,
     original_source |-> NoneStr,
     time_delta_seconds |-> 0,
     time_delta_display |-> FirstReport,
     added_new_info |-> FALSE]

\* classification_logic without Check 1, the independent-observation window
classification_logic_no_window(similarity, time_delta_seconds, has_new_info, incoming_tier, original_tier) ==
    IF RGe(similarity, RInt(SIMILARITY_THRESHOLD_REPOST))
    THEN IF has_new_info THEN <<"UPDATE", similarity>>
         ELSE IF incoming_tier >= original_tier THEN <<"REPOST", similarity>>
         ELSE <<"RELATED", RMul(similarity, Frac(85, 100))>>
    ELSE IF RGe(similarity, RInt(SIMILARITY_THRESHOLD_UPDATE))
    THEN IF has_new_info THEN <<"UPDATE", similarity>>
         ELSE <<"RELATED", similarity>>
    ELSE <<"RELATED", similarity>>

\* classification_logic with Check 3 (the tiers) ahead of Check 2 (new information)
classification_logic_tier_first(similarity, time_delta_seconds, has_new_info, incoming_tier, original_tier) ==
    IF RGe(similarity, RInt(SIMILARITY_THRESHOLD_REPOST))
    THEN IF time_delta_seconds < LOOKBACK_MINUTES_INDEPENDENT * 60
         THEN <<"RELATED", RMul(similarity, Frac(8, 10))>>
         ELSE IF incoming_tier >= original_tier THEN <<"REPOST", similarity>>
         ELSE IF has_new_info THEN <<"UPDATE", similarity>>
         ELSE <<"RELATED", RMul(similarity, Frac(85, 100))>>
    ELSE IF RGe(similarity, RInt(SIMILARITY_THRESHOLD_UPDATE))
    THEN IF has_new_info THEN <<"UPDATE", similarity>>
         ELSE <<"RELATED", similarity>>
    ELSE <<"RELATED", similarity>>

\* classification_logic with the high-similarity branch entered from
\* SIMILARITY_THRESHOLD_UPDATE
classification_logic_one_threshold(similarity, time_delta_seconds, has_new_info, incoming_tier, original_tier) ==
    IF RGe(similarity, RInt(SIMILARITY_THRESHOLD_UPDATE))
    THEN IF time_delta_seconds < LOOKBACK_MINUTES_INDEPENDENT * 60
         THEN <<"RELATED", RMul(similarity, Frac(8, 10))>>
         ELSE IF has_new_info THEN <<"UPDATE", similarity>>
         ELSE IF incoming_tier >= original_tier THEN <<"REPOST", similarity>>
         ELSE <<"RELATED", RMul(similarity, Frac(85, 100))>>
    ELSE <<"RELATED", similarity>>

\* the decision of classify_tweet: <<classification, confidence>>
classification_logic(similarity, time_delta_seconds, has_new_info, incoming_tier, original_tier) ==
    IF RGe(similarity, RInt(SIMILARITY_THRESHOLD_REPOST))
    THEN IF time_delta_seconds < LOOKBACK_MINUTES_INDEPENDENT * 60
         THEN <<"RELATED", RMul(similarity, Frac(8, 10))>>
         ELSE IF has_new_info THEN <<"UPDATE", similarity>>
         ELSE IF incoming_tier >= original_tier THEN <<"REPOST", similarity>>
         ELSE <<"RELATED", RMul(similarity, Frac(85, 100))>>
    ELSE IF RGe(similarity, RInt(SIMILARITY_THRESHOLD_UPDATE))
    THEN IF has_new_info THEN <<"UPDATE", similarity>>
         ELSE <<"RELATED", similarity>>
    ELSE <<"RELATED", similarity>>

\* classify_tweet after its loop: scan is <<index of best_match, best_similarity>>
classify_best(incoming, ms, scan) ==
    IF ms = <<>> THEN original_result(RInt(100))
    ELSE
    LET similarity == scan[2]
    IN  IF scan[1] = 0 THEN original_result(RInt(100))
        ELSE IF RLt(similarity, RInt(SIMILARITY_THRESHOLD_UPDATE))
        THEN original_result(RSub(RInt(100), similarity))
        ELSE
        LET best == ms[scan[1]]
            incoming_time == OrTime(incoming.timestamp_et, incoming.timestamp_utc)
            original_time == OrTime(best.timestamp_et, best.timestamp_utc)
            time_delta_seconds ==
                IF incoming_time # NoTime /\ original_time # NoTime
                THEN incoming_time - original_time
                ELSE 0
            has_new_info == detect_new_information(incoming, best)
            incoming_tier == get_tier_priority(incoming.author_tier)
            original_tier == get_tier_priority(best.author_tier)
            decided == classification_logic(similarity, time_delta_seconds,
                                            has_new_info, incoming_tier, original_tier)
        IN  [status |-> decided[1],
             confidence |-> Round2(decided[2]),
             canonical_event_id |-> best.canonical_event_id,
             original_tweet_id |-> best.tweet_id,
             original_timestamp |-> best.display_time,
             original_source |-> best.author,
             time_delta_seconds |-> time_delta_seconds,
             time_delta_display |-> format_time_delta_seconds(time_delta_seconds),
             added_new_info |-> has_new_info,
             similarity_score |-> similarity]

classify_tweet(incoming, ms) ==
    classify_best(incoming, ms, best_match_scan(similarity_scores(incoming, ms), Len(ms)))

(***************************************************************************)
(* classify_tweet as a pure function: the inputs                           *)
(***************************************************************************)
MaxMatches == 2

Entity(type, value) == [type |-> type, value |-> value]

\* strftime("%b %-d at %-I:%M %p ET") keeps the minute and drops the seconds
display_time_of(timestamp) == IF timestamp = NoTime THEN NoTime ELSE timestamp \div 60

TweetDict(tweet_id, author, author_tier, text_normalized, entities, media_hashes, urls_canonical, timestamp_et, timestamp_utc, canonical_event_id) ==
    [tweet_id |-> tweet_id,
     author |-> author,
     author_tier |-> author_tier,
     text_normalized |-> text_normalized,
     entities |-> entities,
     media_hashes |-> media_hashes,
     urls_canonical |-> urls_canonical,
     timestamp_et |-> timestamp_et,
     timestamp_utc |-> timestamp_utc,
     display_time |-> display_time_of(OrTime(timestamp_et, timestamp_utc)),
     canonical_event_id |-> canonical_event_id]

TextAB == <<"a", "b">>
TextAC == <<"a", "c">>
TextABAC == <<"a", "b", " ", "a", "c">>
EntIDF == Entity("ORG", <<"I", "D", "F">>)
EntIdf == Entity("MILITARY_ORG", <<"i", "d", "f">>)
EntTehran == Entity("GPE", <<"T", "e", "h", "r", "a", "n">>)

SentenceModels ==
    {[loaded |-> FALSE, cosine |-> RInt(0)], [loaded |-> TRUE, cosine |-> Frac(1, 2)]}

IncomingPool ==
    {TweetDict("new", "reporter", tier, text, ents, media, urls, 600, 600, NoId) :
        tier \in {"1A_OSINT", "2_AMPLIFIER", "UNLISTED"},
        text \in {TextAB, TextABAC},
        ents \in {<<>>, <<EntIDF>>, <<EntIDF, EntIdf, EntIDF, EntIdf>>},
        media \in {<<>>, <<"m1">>},
        urls \in {<<>>, <<"u1">>}}

\* what a candidate row carries of its time and event: <<timestamp_et,
\* timestamp_utc, canonical_event_id>>; 10 min, 5 min and 299 s before the incoming
\* report, 100 s after it, and 2 min before it in a row without timestamp_et
CandidateRows ==
    {<<0, 0, 1>>, <<300, 300, NoId>>, <<301, 301, 1>>, <<700, 700, 1>>,
     <<NoTime, 480, NoId>>}

CandidatePool ==
    {TweetDict("c", "source", tier, text, ents, media, urls, row[1], row[2], row[3]) :
        tier \in {"2_AMPLIFIER", "UNLISTED"},
        text \in {<<>>, TextAB, TextAC},
        ents \in {<<>>, <<EntIDF>>, <<EntIDF, EntTehran>>},
        media \in {<<>>, <<"m1">>},
        urls \in {<<>>, <<"u1">>},
        row \in CandidateRows}

\* the candidates of the lists of two and more: one text, scores that tie or differ
\* by the media match, an earlier first report and a later one
TiePool ==
    {TweetDict("c", "source", row[1], TextAB, <<EntIDF>>, media, <<"u1">>,
               row[2], row[2], row[3]) :
        media \in {<<>>, <<"m1">>},
        row \in {<<"2_AMPLIFIER", 0, 1>>, <<"UNLISTED", 300, 2>>}}

\* the list with the candidates' report ids made distinct: "1", "2", ...
Numbered(ms) == [i \in DOMAIN ms |-> [ms[i] EXCEPT !.tweet_id = ToString(i)]]

MatchLists ==
    {<<>>}
    \cup {Numbered(<<c>>) : c \in CandidatePool}
    \cup UNION {{Numbered(ms) : ms \in [1..n -> TiePool]} : n \in 2..MaxMatches}

NoClassification == [status |-> "NONE"]

(***************************************************************************)
(* database.py: the store. A table is the sequence of its rows in insertion *)
(* order, a row's id its position (AUTOINCREMENT with no row ever deleted). *)
(* Each function opens its own connection and commits once: one function is *)
(* one transaction. The reports of the model are all inside the lookback    *)
(* window of find_similar_tweets and fewer than its LIMIT of 20. Timestamps *)
(* are kept as numbers of seconds in every column.                          *)
(***************************************************************************)
\* SELECT id FROM tweets WHERE tweet_id = ?: the ids of the rows found
tweet_ids_of(tweet_id) == {i \in DOMAIN tweets : tweets[i].tweet_id = tweet_id}

\* INSERT INTO tweets (...): the table with the row appended
tweets_with(tweet_data) ==
    Append(tweets,
           [id |-> Len(tweets) + 1,
            tweet_id |-> tweet_data.tweet_id,
            author |-> tweet_data.author,
            author_tier |-> tweet_data.author_tier,
            text |-> tweet_data.text,
            text_normalized |-> tweet_data.text_normalized,
            text_hash |-> tweet_data.text_hash,
            event_hash |-> tweet_data.event_hash,
            timestamp_utc |-> tweet_data.timestamp_utc,
            timestamp_et |-> tweet_data.timestamp_et,
            display_time |-> tweet_data.display_time])

\* a row returned together with the entities and URLs stored for it
dict_from_row_with_lists(t, canonical_event_id) ==
    LET of_row(rows) == SelectSeq(rows, LAMBDA r : r.tweet_id = t.id)
    IN  [id |-> t.id,
         tweet_id |-> t.tweet_id,
         author |-> t.author,
         author_tier |-> t.author_tier,
         text_normalized |-> t.text_normalized,
         text_hash |-> t.text_hash,
         event_hash |-> t.event_hash,
         entities |-> [k \in DOMAIN of_row(entity_rows) |->
                          [type |-> of_row(entity_rows)[k].entity_type,
                           value |-> of_row(entity_rows)[k].entity_value]],
         media_hashes |-> <<>>,
         urls_canonical |-> [k \in DOMAIN of_row(url_rows) |->
                                of_row(url_rows)[k].url_canonical],
         timestamp_et |-> t.timestamp_et,
         timestamp_utc |-> t.timestamp_utc,
         display_time |-> t.display_time,
         canonical_event_id |-> canonical_event_id]

\* dict_from_row of a row of SELECT t.*, ce.id as canonical_event_id: the columns
\* classify_tweet reads; a row has no 'entities', 'media_hashes' or 'urls_canonical'
\* key, for which .get(key, []) gives []
dict_from_row(t, canonical_event_id) ==
    [id |-> t.id,
     tweet_id |-> t.tweet_id,
     author |-> t.author,
     author_tier |-> t.author_tier,
     text_normalized |-> t.text_normalized,
     text_hash |-> t.text_hash,
     event_hash |-> t.event_hash,
     entities |-> <<>>,
     media_hashes |-> <<>>,
     urls_canonical |-> <<>>,
     timestamp_et |-> t.timestamp_et,
     timestamp_utc |-> t.timestamp_utc,
     display_time |-> t.display_time,
     canonical_event_id |-> canonical_event_id]

\* ORDER BY t.timestamp_et ASC of a set of joined rows <<tweet id, event id>>;
\* rows of one timestamp in the order of their ids
RECURSIVE order_by_timestamp_et(_)
order_by_timestamp_et(rows) ==
    IF rows = {} THEN <<>>
    ELSE LET first == CHOOSE r \in rows : \A q \in rows :
                          \/ tweets[r[1]].timestamp_et < tweets[q[1]].timestamp_et
                          \/ /\ tweets[r[1]].timestamp_et = tweets[q[1]].timestamp_et
                             /\ \/ r[1] < q[1]
                                \/ r[1] = q[1] /\ r[2] <= q[2]
         IN  <<dict_from_row(tweets[first[1]], first[2])>>
             \o order_by_timestamp_et(rows \ {first})

\* find_similar_tweets for 'text_hash' and 'event_hash': tweets LEFT JOIN
\* canonical_events ON t.id = ce.first_tweet_id
find_similar_tweets(search_type, search_value) ==
    LET found == {i \in DOMAIN tweets :
                     IF search_type = "text_hash" THEN tweets[i].text_hash = search_value
                     ELSE tweets[i].event_hash = search_value}
        events_of(i) == {canonical_events[k].id : k \in {j \in DOMAIN canonical_events :
                                                       canonical_events[j].first_tweet_id = i}}
        joined == UNION {IF events_of(i) = {} THEN {<<i, NoId>>}
                         ELSE {<<i, e>> : e \in events_of(i)} : i \in found}
    IN  order_by_timestamp_et(joined)

\* create_canonical_event with a plain INSERT and no UNIQUE(event_hash)
create_canonical_event_plain_insert(tweet_db_id, event_hash, claim_summary) ==
    LET tweet == tweets[tweet_db_id]
        row == [id |-> Len(canonical_events) + 1,
                event_hash |-> event_hash,
                first_tweet_id |-> tweet_db_id,
                first_timestamp_utc |-> tweet.timestamp_utc,
                first_timestamp_et |-> tweet.timestamp_et,
                first_display_time |-> tweet.display_time,
                first_author |-> tweet.author,
                claim_summary |-> claim_summary,
                repost_count |-> 0,
                update_count |-> 0,
                last_updated |-> 0]
    IN  [canonical_events |-> Append(canonical_events, row), event_id |-> row.id]

\* create_canonical_event with INSERT OR REPLACE: the row of the hash rewritten
\* with the caller's report
create_canonical_event_or_replace(tweet_db_id, event_hash, claim_summary) ==
    LET tweet == tweets[tweet_db_id]
        existing == {k \in DOMAIN canonical_events :
                        canonical_events[k].event_hash = event_hash}
        row(id) == [id |-> id,
                    event_hash |-> event_hash,
                    first_tweet_id |-> tweet_db_id,
                    first_timestamp_utc |-> tweet.timestamp_utc,
                    first_timestamp_et |-> tweet.timestamp_et,
                    first_display_time |-> tweet.display_time,
                    first_author |-> tweet.author,
                    claim_summary |-> claim_summary,
                    repost_count |-> 0,
                    update_count |-> 0,
                    last_updated |-> 0]
    IN  IF existing = {}
        THEN [canonical_events |-> Append(canonical_events, row(Len(canonical_events) + 1)),
              event_id |-> Len(canonical_events) + 1]
        ELSE LET k == CHOOSE k \in existing : TRUE
             IN  [canonical_events |-> [canonical_events EXCEPT ![k] = row(k)],
                  event_id |-> k]

\* create_canonical_event: <<the table after it, the id returned>>. event_hash is
\* UNIQUE: on PostgreSQL ON CONFLICT (event_hash) DO UPDATE SET last_updated =
\* NOW() RETURNING id; on SQLite INSERT OR IGNORE, cur.lastrowid (0 when this
\* connection inserted nothing) and then SELECT id ... WHERE event_hash = ?.
\* last_updated counts the writes to the row
create_canonical_event(tweet_db_id, event_hash, claim_summary) ==
    LET tweet == tweets[tweet_db_id]
        existing == {k \in DOMAIN canonical_events :
                        canonical_events[k].event_hash = event_hash}
        row == [id |-> Len(canonical_events) + 1,
                event_hash |-> event_hash,
                first_tweet_id |-> tweet_db_id,
                first_timestamp_utc |-> tweet.timestamp_utc,
                first_timestamp_et |-> tweet.timestamp_et,
                first_display_time |-> tweet.display_time,
                first_author |-> tweet.author,
                claim_summary |-> IF claim_summary # <<>> THEN claim_summary
                                  ELSE SubSeq(tweet.text, 1, Min({200, Len(tweet.text)})),
                repost_count |-> 0,
                update_count |-> 0,
                last_updated |-> 0]
    IN  IF existing = {}
        THEN [canonical_events |-> Append(canonical_events, row), event_id |-> row.id]
        ELSE LET k == CHOOSE k \in existing : TRUE
             IN  IF conn_type = "postgresql"
                 THEN [canonical_events |->
                           [canonical_events EXCEPT ![k].last_updated = @ + 1],
                       event_id |-> canonical_events[k].id]
                 ELSE [canonical_events |-> canonical_events,
                       event_id |-> canonical_events[k].id]

\* add_repost: the reposts table with the link appended, and the event's count of
\* the link's classification incremented
reposts_with(canonical_event_id, repost_tweet_id, status, confidence, time_delta_seconds, time_delta_display, added_new_info) ==
    Append(reposts,
           [id |-> Len(reposts) + 1,
            canonical_event_id |-> canonical_event_id,
            repost_tweet_id |-> repost_tweet_id,
            time_delta_seconds |-> time_delta_seconds,
            time_delta_display |-> time_delta_display,
            confidence_score |-> confidence,
            classification |-> status,
            added_new_info |-> added_new_info])

\* add_repost raising repost_count for a link of either classification
counted_as_repost(canonical_event_id, status) ==
    [k \in DOMAIN canonical_events |->
        IF canonical_events[k].id # canonical_event_id THEN canonical_events[k]
        ELSE [canonical_events[k] EXCEPT !.repost_count = @ + 1, !.last_updated = @ + 1]]

counted_repost(canonical_event_id, status) ==
    [k \in DOMAIN canonical_events |->
        IF canonical_events[k].id # canonical_event_id THEN canonical_events[k]
        ELSE IF status = "REPOST"
        THEN [canonical_events[k] EXCEPT !.repost_count = @ + 1, !.last_updated = @ + 1]
        ELSE IF status = "UPDATE"
        THEN [canonical_events[k] EXCEPT !.update_count = @ + 1, !.last_updated = @ + 1]
        ELSE canonical_events[k]]

\* update_account_metrics: the upsert of the account's row and the count of the
\* classification
update_account_metrics(account, status, tier) ==
    LET upserted ==
            IF account \in DOMAIN account_metrics
            THEN [account_metrics[account] EXCEPT !.total_tweets_tracked = @ + 1,
                                                  !.tier = tier]
            ELSE [tier |-> tier,
                  total_tweets_tracked |-> 1,
                  total_original_reports |-> 0,
                  total_reposts |-> 0,
                  total_updates |-> 0]
        counted ==
            IF status = "ORIGINAL"
            THEN [upserted EXCEPT !.total_original_reports = @ + 1]
            ELSE IF status = "REPOST" THEN [upserted EXCEPT !.total_reposts = @ + 1]
            ELSE IF status = "UPDATE" THEN [upserted EXCEPT !.total_updates = @ + 1]
            ELSE upserted
    IN  [a \in DOMAIN account_metrics \cup {account} |->
            IF a = account THEN counted ELSE account_metrics[a]]

(***************************************************************************)
(* ingestion.py: TweetProcessor.process_tweet, run by the stream listener   *)
(* and the poller against one store                                         *)
(***************************************************************************)
Procs == {"stream", "poll"}

\* the calls of process_tweet a behaviour starts
MaxCalls == 3

\* self.tracked_accounts: one tracked account
tracked_accounts == [alice |-> [tier |-> "1A_OSINT"]]

\* account_info['tier'] if account_info else '3_SECONDARY'
author_tier_of(author) ==
    IF author \in DOMAIN tracked_accounts THEN tracked_accounts[author].tier
    ELSE "3_SECONDARY"

TextIdfHit == <<"I", "D", "F", " ", "h", "i", "t">>
TextIdfHitBang == <<"I", "D", "F", " ", "h", "i", "t", "!">>

\* the reports delivered: two of one normalized text from two sources, 10 minutes
\* apart, and one each without text, without id and without username
Reports ==
    {[id |-> "1", username |-> "alice", text |-> TextIdfHit, created_at |-> 0],
     [id |-> "2", username |-> "bob", text |-> TextIdfHitBang, created_at |-> 600],
     [id |-> "3", username |-> "bob", text |-> <<>>, created_at |-> 900],
     [id |-> "", username |-> "bob", text |-> TextIdfHit, created_at |-> 900],
     [id |-> "4", username |-> "", text |-> TextIdfHit, created_at |-> 900]}

\* no report given yet
NoReport == [id |-> NoneStr, username |-> NoneStr, text |-> <<>>, created_at |-> NoTime]

\* a report with a field missing passed as complete
required_fields_unchecked(tweet_data) ==
    FALSE

\* not tweet_id or not author or not text
missing_required_fields(tweet_data) ==
    tweet_data.id = "" \/ tweet_data.username = "" \/ tweet_data.text = <<>>

\* convert_to_et: the same instant, and its display string
convert_to_et(utc_timestamp) ==
    [timestamp_et |-> utc_timestamp, display_time |-> display_time_of(utc_timestamp)]

\* tweet_record of process_tweet; it has no 'media_hashes' key
tweet_record_of(tweet_data, nlp_ok) ==
    LET fingerprint == create_tweet_fingerprint(tweet_data.text, nlp_ok)
        et_info == convert_to_et(tweet_data.created_at)
    IN  [tweet_id |-> tweet_data.id,
         author |-> tweet_data.username,
         author_tier |-> author_tier_of(tweet_data.username),
         text |-> tweet_data.text,
         text_normalized |-> fingerprint.text_normalized,
         text_hash |-> fingerprint.text_hash,
         event_hash |-> fingerprint.event_hash,
         timestamp_utc |-> tweet_data.created_at,
         timestamp_et |-> et_info.timestamp_et,
         display_time |-> et_info.display_time,
         entities |-> fingerprint.entities,
         urls_canonical |-> fingerprint.urls_canonical,
         media_hashes |-> <<>>,
         canonical_event_id |-> NoId]

\* for m in matches: if m['tweet_id'] != tweet_id and m not in similar_tweets:
\* similar_tweets.append(m), over found[n..]
RECURSIVE append_new_matches(_, _, _, _)
append_new_matches(similar, found, tweet_id, n) ==
    IF n > Len(found) THEN similar
    ELSE IF found[n].tweet_id # tweet_id /\ found[n] \notin Range(similar)
    THEN append_new_matches(Append(similar, found[n]), found, tweet_id, n + 1)
    ELSE append_new_matches(similar, found, tweet_id, n + 1)

NoRecord == [tweet_id |-> NoneStr]

\* the locals of a call of process_tweet, and what it returned
NoFrame ==
    [tweet_data |-> NoReport,
     tweet_record |-> NoRecord,
     similar_tweets |-> <<>>,
     classification |-> NoClassification,
     tweet_db_id |-> NoId,
     result |-> "none",
     message |-> NoneStr]

\* the tables after init_database
StoreEmpty ==
    /\ tweets = <<>>
    /\ entity_rows = <<>>
    /\ url_rows = <<>>
    /\ canonical_events = <<>>
    /\ reposts = <<>>
    /\ account_metrics = <<>>

\* no call of process_tweet made yet, fingerprinting._nlp not loaded
IngestionIdle ==
    /\ nlp_loaded = [p \in Procs |-> FALSE]
    /\ pc = [p \in Procs |-> "idle"]
    /\ frame = [p \in Procs |-> NoFrame]
    /\ calls = 0
    /\ returned = {}

(***************************************************************************)
(* digest.py: the module state at import                                   *)
(***************************************************************************)
\* the threads that call add_headline, post_digest and clear_pending_headlines
Threads == {"worker", "timer"}

\* format_digest_tweet returned None, or was not called
NoTweet == [text |-> <<>>, author |-> NoneStr, time_str |-> NoTime]

\* the locals of a thread's call into digest.py, and what it returned
NoCall ==
    [op |-> "none",
     headline_data |-> [text |-> NoneStr],
     headlines |-> <<>>,
     tweet_text |-> NoTweet,
     tweet_id |-> NoneStr,
     now |-> NoTime,
     result |-> NoneStr]

\* _last_digest_time: Optional[datetime] = None, at the import of digest.py
TimerUnset ==
    /\ current_time = 0
    /\ last_digest_time = NoTime

\* _lock free and no call made yet
DigestIdle ==
    /\ lock = NoneStr
    /\ dpc = [t \in Threads |-> "idle"]
    /\ dframe = [t \in Threads |-> NoCall]
    /\ adds = 0

(***************************************************************************)
(* reliability.py: no call made yet                                        *)
(***************************************************************************)
NoReliabilityCall == [op |-> "none"]

(***************************************************************************)
(* fingerprinting.py: no call made yet                                     *)
(***************************************************************************)
NoFingerprintCall == [op |-> "none"]

\* classify_tweet called on its own, on any report and any candidate list
InitClassify ==
    /\ conn_type = "sqlite"
    /\ StoreEmpty
    /\ IngestionIdle
    /\ DigestIdle
    /\ pending_headlines = <<>>
    /\ rcall = NoReliabilityCall
    /\ TimerUnset
    /\ fcall = NoFingerprintCall
    /\ sentence_model \in SentenceModels
    /\ incoming_tweet \in IncomingPool
    /\ matches \in MatchLists
    /\ similarity_score = <<>>
    /\ best_match = 0
    /\ best_similarity = RInt(0)
    /\ classification = NoClassification

\* classification = classify_tweet(tweet_record, similar_tweets)
Classify ==
    /\ classification = NoClassification
    /\ similarity_score' = similarity_scores(incoming_tweet, matches)
    /\ best_match' = best_match_scan(similarity_score', Len(matches))[1]
    /\ best_similarity' = best_match_scan(similarity_score', Len(matches))[2]
    /\ classification' = classify_best(incoming_tweet, matches,
                                        <<best_match', best_similarity'>>)
    /\ UNCHANGED <<incoming_tweet, matches, sentence_model, svars, pvars>>
    /\ UNCHANGED <<dvars, rvars, fvars, tvars>>

NextClassify == Classify

SpecClassify == InitClassify /\ [][NextClassify]_vars

(***************************************************************************)
(* The store and the two callers of process_tweet                          *)
(***************************************************************************)
Init ==
    /\ conn_type \in {"sqlite", "postgresql"}
    /\ StoreEmpty
    /\ IngestionIdle
    /\ DigestIdle
    /\ pending_headlines = <<>>
    /\ rcall = NoReliabilityCall
    /\ TimerUnset
    /\ fcall = NoFingerprintCall
    /\ sentence_model \in SentenceModels
    /\ incoming_tweet = NoRecord
    /\ matches = <<>>
    /\ similarity_score = <<>>
    /\ best_match = 0
    /\ best_similarity = RInt(0)
    /\ classification = NoClassification

\* process_tweet raised: the except clause returns the error result
Raised(p) ==
    /\ pc' = [pc EXCEPT ![p] = "idle"]
    /\ frame' = [frame EXCEPT ![p].result = "error", ![p].message = "str(e)"]

\* process_tweet up to tweet_record: the required fields, the account, the
\* timestamps and the fingerprint. The spaCy model, once loaded, stays loaded;
\* until then loading it succeeds or fails
ProcessTweet(p, tweet_data, nlp_ok) ==
    /\ pc[p] = "idle"
    /\ calls < MaxCalls
    /\ calls' = calls + 1
    /\ nlp_loaded[p] => nlp_ok
    /\ IF missing_required_fields(tweet_data)
       THEN /\ frame' = [frame EXCEPT ![p] =
                            [NoFrame EXCEPT !.tweet_data = tweet_data,
                                            !.result = "error",
                                            !.message = "Missing required fields"]]
            /\ UNCHANGED <<pc, nlp_loaded>>
       ELSE /\ frame' = [frame EXCEPT ![p] =
                            [NoFrame EXCEPT !.tweet_data = tweet_data,
                                            !.tweet_record = tweet_record_of(tweet_data, nlp_ok)]]
            /\ pc' = [pc EXCEPT ![p] = "find_text_hash"]
            /\ nlp_loaded' = [nlp_loaded EXCEPT ![p] = nlp_ok]
    /\ UNCHANGED <<svars, returned, cvars, sentence_model>>
    /\ UNCHANGED <<dvars, rvars, fvars, tvars>>

\* find_similar_tweets('text_hash', ...) and the loop over its rows
FindByTextHash(p) ==
    /\ pc[p] = "find_text_hash"
    /\ frame' = [frame EXCEPT ![p].similar_tweets =
                     append_new_matches(<<>>,
                         find_similar_tweets("text_hash", frame[p].tweet_record.text_hash),
                         frame[p].tweet_record.tweet_id, 1)]
    /\ pc' = [pc EXCEPT ![p] = "find_event_hash"]
    /\ UNCHANGED <<svars, returned, calls, nlp_loaded, cvars, sentence_model>>
    /\ UNCHANGED <<dvars, rvars, fvars, tvars>>

\* find_similar_tweets('event_hash', ...), the loop over its rows, and
\* classify_tweet(tweet_record, similar_tweets)
FindByEventHash(p) ==
    /\ pc[p] = "find_event_hash"
    /\ LET similar == append_new_matches(frame[p].similar_tweets,
                          find_similar_tweets("event_hash", frame[p].tweet_record.event_hash),
                          frame[p].tweet_record.tweet_id, 1)
       IN  frame' = [frame EXCEPT ![p].similar_tweets = similar,
                                  ![p].classification =
                                      classify_tweet(frame[p].tweet_record, similar)]
    /\ pc' = [pc EXCEPT ![p] = "insert_tweet"]
    /\ UNCHANGED <<svars, returned, calls, nlp_loaded, cvars, sentence_model>>
    /\ UNCHANGED <<dvars, rvars, fvars, tvars>>

\* insert_tweet, its SELECT: the query has a '?' placeholder on both databases,
\* which psycopg2 rejects; a row found is returned
InsertTweetSelect(p) ==
    /\ pc[p] = "insert_tweet"
    /\ IF conn_type = "postgresql" THEN Raised(p)
       ELSE IF tweet_ids_of(frame[p].tweet_record.tweet_id) # {}
       THEN /\ frame' = [frame EXCEPT ![p].tweet_db_id =
                            CHOOSE i \in tweet_ids_of(frame[p].tweet_record.tweet_id) : TRUE]
            /\ pc' = [pc EXCEPT ![p] = "insert_entities"]
       ELSE /\ pc' = [pc EXCEPT ![p] = "insert_tweet_insert"]
            /\ UNCHANGED frame
    /\ UNCHANGED <<svars, returned, calls, nlp_loaded, cvars, sentence_model>>
    /\ UNCHANGED <<dvars, rvars, fvars, tvars>>

\* insert_tweet, its INSERT: tweet_id is UNIQUE, a row inserted since the SELECT
\* raises IntegrityError
InsertTweetInsert(p) ==
    /\ pc[p] = "insert_tweet_insert"
    /\ IF tweet_ids_of(frame[p].tweet_record.tweet_id) # {}
       THEN /\ Raised(p)
            /\ UNCHANGED tweets
       ELSE /\ tweets' = tweets_with(frame[p].tweet_record)
            /\ frame' = [frame EXCEPT ![p].tweet_db_id = Len(tweets) + 1]
            /\ pc' = [pc EXCEPT ![p] = "insert_entities"]
    /\ UNCHANGED <<conn_type, entity_rows, url_rows, canonical_events, reposts,
                   account_metrics, returned, calls, nlp_loaded, cvars, sentence_model>>
    /\ UNCHANGED <<dvars, rvars, fvars, tvars>>

\* insert_entities and insert_urls
InsertEntitiesAndUrls(p) ==
    /\ pc[p] = "insert_entities"
    /\ entity_rows' = entity_rows \o
           [k \in DOMAIN frame[p].tweet_record.entities |->
               [tweet_id |-> frame[p].tweet_db_id,
                entity_type |-> frame[p].tweet_record.entities[k].type,
                entity_value |-> frame[p].tweet_record.entities[k].value]]
    /\ url_rows' = url_rows \o
           [k \in DOMAIN frame[p].tweet_record.urls_canonical |->
               [tweet_id |-> frame[p].tweet_db_id,
                url_canonical |-> frame[p].tweet_record.urls_canonical[k]]]
    /\ pc' = [pc EXCEPT ![p] = "handle_classification"]
    /\ UNCHANGED <<conn_type, tweets, canonical_events, reposts, account_metrics,
                   frame, returned, calls, nlp_loaded, cvars, sentence_model>>
    /\ UNCHANGED <<dvars, rvars, fvars, tvars>>

\* a classification taken to name an event whatever its canonical_event_id
event_unchecked(result) ==
    TRUE

\* if classification.get('canonical_event_id'):
has_canonical_event(result) ==
    result.canonical_event_id # NoId

\* "Handle classification": create_canonical_event for an ORIGINAL, add_repost
\* for a REPOST or UPDATE whose original is the first report of an event
HandleClassification(p) ==
    /\ pc[p] = "handle_classification"
    /\ IF frame[p].classification.status = "ORIGINAL"
       THEN LET created == create_canonical_event(frame[p].tweet_db_id,
                               frame[p].tweet_record.event_hash,
                               SubSeq(frame[p].tweet_record.text, 1,
                                      Min({200, Len(frame[p].tweet_record.text)})))
            IN  /\ canonical_events' = created.canonical_events
                /\ frame' = [frame EXCEPT ![p].classification.canonical_event_id =
                                created.event_id]
                /\ returned' = returned \cup
                       {[event_hash |-> frame[p].tweet_record.event_hash,
                         tweet_db_id |-> frame[p].tweet_db_id,
                         event_id |-> created.event_id]}
                /\ UNCHANGED reposts
       ELSE IF /\ frame[p].classification.status \in {"REPOST", "UPDATE"}
               /\ has_canonical_event(frame[p].classification)
       THEN /\ reposts' = reposts_with(frame[p].classification.canonical_event_id,
                              frame[p].tweet_db_id,
                              frame[p].classification.status,
                              frame[p].classification.confidence,
                              frame[p].classification.time_delta_seconds,
                              frame[p].classification.time_delta_display,
                              frame[p].classification.added_new_info)
            /\ canonical_events' =
                   counted_repost(frame[p].classification.canonical_event_id,
                                  frame[p].classification.status)
            /\ UNCHANGED <<frame, returned>>
       ELSE UNCHANGED <<canonical_events, reposts, frame, returned>>
    /\ pc' = [pc EXCEPT ![p] = "update_account_metrics"]
    /\ UNCHANGED <<conn_type, tweets, entity_rows, url_rows, account_metrics, calls,
                   nlp_loaded, cvars, sentence_model>>
    /\ UNCHANGED <<dvars, rvars, fvars, tvars>>

\* a database call of process_tweet raises (the connection fails, or SQLite is
\* locked by another writer for longer than its timeout): a function that
\* raises has committed nothing of its own, the functions that returned
\* before it have committed, and the except clause returns the error result
DatabaseError(p) ==
    /\ pc[p] \in {"find_text_hash", "find_event_hash", "insert_tweet", "insert_tweet_insert",
                  "insert_entities", "handle_classification", "update_account_metrics"}
    /\ Raised(p)
    /\ UNCHANGED <<svars, returned, calls, nlp_loaded, cvars, sentence_model>>
    /\ UNCHANGED <<dvars, rvars, fvars, tvars>>

\* update_account_metrics and the success result
UpdateAccountMetrics(p) ==
    /\ pc[p] = "update_account_metrics"
    /\ account_metrics' = update_account_metrics(frame[p].tweet_record.author,
                              frame[p].classification.status,
                              frame[p].tweet_record.author_tier)
    /\ frame' = [frame EXCEPT ![p].result = "success"]
    /\ pc' = [pc EXCEPT ![p] = "idle"]
    /\ UNCHANGED <<conn_type, tweets, entity_rows, url_rows, canonical_events, reposts,
                   returned, calls, nlp_loaded, cvars, sentence_model>>
    /\ UNCHANGED <<dvars, rvars, fvars, tvars>>

Next ==
    \E p \in Procs :
        \/ \E tweet_data \in Reports, nlp_ok \in BOOLEAN : ProcessTweet(p, tweet_data, nlp_ok)
        \/ FindByTextHash(p)
        \/ FindByEventHash(p)
        \/ InsertTweetSelect(p)
        \/ InsertTweetInsert(p)
        \/ InsertEntitiesAndUrls(p)
        \/ HandleClassification(p)
        \/ UpdateAccountMetrics(p)

Spec == Init /\ [][Next]_vars

\* the same callers with database calls that can raise
NextWithErrors ==
    \/ Next
    \/ \E p \in Procs : DatabaseError(p)

SpecWithErrors == Init /\ [][NextWithErrors]_vars

(***************************************************************************)
(* Claims about classify_tweet (specification SpecClassify)                *)
(***************************************************************************)
Classified == classification.status # "NONE"

\* the candidate classify_tweet settled on, and its composite score
HasBest == best_match # 0
BestCandidate == matches[best_match]
BestScore == best_similarity

\* the greatest composite score over the whole list (0 for an empty list)
MaxScore ==
    IF matches = <<>> THEN RInt(0)
    ELSE LET scores == Range(similarity_score)
         IN  CHOOSE x \in scores : \A y \in scores : RGe(x, y)

ReportTime(t) == OrTime(t.timestamp_et, t.timestamp_utc)
TimeDelta == ReportTime(incoming_tweet) - ReportTime(BestCandidate)
NewInfo == detect_new_information(incoming_tweet, BestCandidate)

\* the tier rank as the specification states it: lower is higher authority, an
\* unrecognized tier ranks 99
TierRank(tier) ==
    IF tier = "1A_OSINT" THEN 1
    ELSE IF tier = "1B_OFFICIAL" THEN 2
    ELSE IF tier = "1C_WIRE" THEN 3
    ELSE IF tier = "2_AMPLIFIER" THEN 4
    ELSE IF tier \in {"3_SECONDARY", "3_VERIFICATION"} THEN 5
    ELSE 99

IncomingRank == TierRank(incoming_tweet.author_tier)
OriginalRank == TierRank(BestCandidate.author_tier)

HighScore == HasBest /\ RGe(BestScore, RInt(85))
BandScore == HasBest /\ RGe(BestScore, RInt(70)) /\ RLt(BestScore, RInt(85))

\* C1: classify_tweet returns REPOST exactly when the best score is >= 85, the
\* time delta is >= 300 s, no new information is detected and the incoming tier
\* rank is >= the best candidate's (unrecognized tier: 99); with the first three
\* and a strictly smaller incoming rank it returns RELATED with confidence
\* 0.85 x score (the returned confidence is rounded to two decimals).
C1_RepostExactlyWhen ==
    Classified =>
        /\ classification.status = "REPOST" <=>
               /\ HighScore
               /\ TimeDelta >= 300
               /\ ~NewInfo
               /\ IncomingRank >= OriginalRank
        /\ (HighScore /\ TimeDelta >= 300 /\ ~NewInfo /\ IncomingRank < OriginalRank) =>
               /\ classification.status = "RELATED"
               /\ classification.confidence = Round2(RMul(Frac(85, 100), BestScore))

\* C1 witnesses: a REPOST by an unrecognized tier, and a higher-authority RELATED
C1_Witness ==
    /\ Classified
    /\ classification.status = "REPOST"
    /\ incoming_tweet.author_tier = "UNLISTED"
    /\ BestCandidate.author_tier = "2_AMPLIFIER"
    /\ TimeDelta = 300

\* C2: with the best score >= 85 and the incoming report less than 300 s after the
\* best candidate, the result is RELATED with confidence 0.8 x score (rounded to
\* two decimals), whatever the new information and the tier ranks are.
C2_IndependentWindowRelated ==
    (Classified /\ HighScore /\ TimeDelta < 300) =>
        /\ classification.status = "RELATED"
        /\ classification.confidence = Round2(RMul(Frac(8, 10), BestScore))

\* C2 witness: an identical same-tier pair two minutes apart, the later one with
\* nothing new, which would be a REPOST outside the window
C2_Witness ==
    /\ Classified
    /\ HighScore
    /\ TimeDelta = 120
    /\ ~NewInfo
    /\ incoming_tweet.media_hashes = BestCandidate.media_hashes
    /\ incoming_tweet.author_tier = BestCandidate.author_tier
    /\ incoming_tweet.text_normalized = BestCandidate.text_normalized
    /\ incoming_tweet.entities = BestCandidate.entities
    /\ incoming_tweet.urls_canonical = BestCandidate.urls_canonical
    /\ classification.status = "RELATED"

\* C3: with the best score >= 85, the time delta >= 300 s and new information
\* detected, the result is UPDATE with confidence = score (rounded to two
\* decimals), whatever the two tier ranks are.
C3_NewInfoIsUpdate ==
    (Classified /\ HighScore /\ TimeDelta >= 300 /\ NewInfo) =>
        /\ classification.status = "UPDATE"
        /\ classification.confidence = Round2(BestScore)
        /\ classification.added_new_info

\* C3 witness: a report 10 minutes later with 3 more entities, from a source of
\* lower authority than the original's (the REPOST path, were nothing new)
C3_Witness ==
    /\ Classified
    /\ HighScore
    /\ TimeDelta = 600
    /\ Len(incoming_tweet.entities) = Len(BestCandidate.entities) + 3
    /\ IncomingRank > OriginalRank
    /\ classification.status = "UPDATE"

\* C4: with an empty candidate list or a best score below 70 the result is
\* ORIGINAL, time delta 0, no canonical event and no original report named; the
\* confidence is 100 without candidates and 100 - best score otherwise.
C4_OriginalBelowThreshold ==
    (Classified /\ (matches = <<>> \/ RLt(MaxScore, RInt(70)))) =>
        /\ classification.status = "ORIGINAL"
        /\ classification.time_delta_seconds = 0
        /\ classification.canonical_event_id = NoId
        /\ classification.original_tweet_id = NoneStr
        /\ classification.confidence =
               IF matches = <<>> THEN RInt(100) ELSE RSub(RInt(100), MaxScore)

\* C4 witness: a candidate that is the first report of an event, scoring below 70
\* but above 0
C4_Witness ==
    /\ Classified
    /\ matches # <<>>
    /\ RGt(MaxScore, RInt(0))
    /\ RLt(MaxScore, RInt(70))
    /\ matches[1].canonical_event_id # NoId
    /\ classification.status = "ORIGINAL"

\* C5: with 70 <= best score < 85 the result is UPDATE when new information is
\* detected and RELATED otherwise, confidence = score (rounded to two decimals),
\* whatever the time delta and the tier ranks are.
C5_MediumBand ==
    (Classified /\ BandScore) =>
        /\ classification.status = IF NewInfo THEN "UPDATE" ELSE "RELATED"
        /\ classification.confidence = Round2(BestScore)

\* C5 witness: a band score at the lower threshold, 10 minutes later, nothing new,
\* same tier: RELATED
C5_Witness ==
    /\ Classified
    /\ BestScore = RInt(70)
    /\ TimeDelta = 600
    /\ ~NewInfo
    /\ IncomingRank = OriginalRank
    /\ classification.status = "RELATED"

\* C6: two reports with identical normalized text, identical entities and
\* identical canonical URLs, from sources of the same tier, the later one 10
\* minutes after the earlier one, classify the later one as REPOST of the earlier.
C6_IdenticalPairIsRepost ==
    (/\ Classified
     /\ Len(matches) = 1
     /\ incoming_tweet.text_normalized # <<>>
     /\ incoming_tweet.entities # <<>>
     /\ incoming_tweet.urls_canonical # <<>>
     /\ incoming_tweet.text_normalized = matches[1].text_normalized
     /\ incoming_tweet.entities = matches[1].entities
     /\ incoming_tweet.urls_canonical = matches[1].urls_canonical
     /\ incoming_tweet.author_tier = matches[1].author_tier
     /\ ReportTime(incoming_tweet) - ReportTime(matches[1]) = 600) =>
        /\ classification.status = "REPOST"
        /\ classification.original_tweet_id = matches[1].tweet_id

\* C7: the original a non-ORIGINAL result names is a candidate with the maximum
\* composite score of the list, and of the candidates that tie on the maximum it
\* is one with the earliest timestamp, whatever the order of the list.
C7_BestIsMaxThenEarliest ==
    (Classified /\ classification.status # "ORIGINAL") =>
        \E i \in DOMAIN matches :
            /\ classification.original_tweet_id = matches[i].tweet_id
            /\ similarity_score[i] = MaxScore
            /\ \A j \in DOMAIN matches :
                   similarity_score[j] = MaxScore =>
                       ReportTime(matches[i]) <= ReportTime(matches[j])

(***************************************************************************)
(* Claims about the store under process_tweet (specification Spec)         *)
(***************************************************************************)
\* the rows of canonical_events of one event hash
EventsOf(event_hash) ==
    {k \in DOMAIN canonical_events : canonical_events[k].event_hash = event_hash}

\* the caller is between create_canonical_event and update_account_metrics
JustCreated(p) ==
    /\ pc[p] = "update_account_metrics"
    /\ frame[p].classification.status = "ORIGINAL"

\* C8: under any interleaving of the two callers on reports of one event hash the
\* store never holds two canonical events of one hash; every id that
\* create_canonical_event has returned for a hash is the id of the one event of
\* that hash; and once both callers are done, each call that succeeded holds that
\* id as its classification's canonical_event_id.
C8_OneEventPerHash ==
    /\ \A i, j \in DOMAIN canonical_events :
           canonical_events[i].event_hash = canonical_events[j].event_hash => i = j
    /\ \A r \in returned :
           /\ EventsOf(r.event_hash) # {}
           /\ \A k \in EventsOf(r.event_hash) : canonical_events[k].id = r.event_id
    /\ (\A p \in Procs : pc[p] = "idle") =>
           \A p \in Procs :
               frame[p].result = "success" =>
                   /\ Cardinality(EventsOf(frame[p].tweet_record.event_hash)) = 1
                   /\ \A k \in EventsOf(frame[p].tweet_record.event_hash) :
                          frame[p].classification.canonical_event_id = canonical_events[k].id

\* two callers that each found no candidate have both been through
\* create_canonical_event with one event hash, for two different stored reports,
\* and both hold the same event id
C8_Witness ==
    /\ JustCreated("stream")
    /\ JustCreated("poll")
    /\ frame["stream"].similar_tweets = <<>>
    /\ frame["poll"].similar_tweets = <<>>
    /\ frame["stream"].tweet_record.event_hash = frame["poll"].tweet_record.event_hash
    /\ frame["stream"].tweet_db_id # frame["poll"].tweet_db_id
    /\ frame["stream"].classification.canonical_event_id =
           frame["poll"].classification.canonical_event_id

\* C9: a step of create_canonical_event for an event hash that already has a
\* canonical event returns the id of that event, adds no row to canonical_events,
\* and leaves every row's first report, first timestamps, first author, claim
\* summary, repost count and update count as they were.
C9_ExistingEventUntouched ==
    [][\A p \in Procs :
          (/\ pc[p] = "handle_classification"
           /\ pc'[p] = "update_account_metrics"
           /\ frame[p].classification.status = "ORIGINAL"
           /\ EventsOf(frame[p].tweet_record.event_hash) # {}) =>
              /\ \E k \in EventsOf(frame[p].tweet_record.event_hash) :
                     frame'[p].classification.canonical_event_id = canonical_events[k].id
              /\ Len(canonical_events') = Len(canonical_events)
              /\ \A k \in DOMAIN canonical_events :
                     /\ canonical_events'[k].id = canonical_events[k].id
                     /\ canonical_events'[k].event_hash = canonical_events[k].event_hash
                     /\ canonical_events'[k].first_tweet_id = canonical_events[k].first_tweet_id
                     /\ canonical_events'[k].first_timestamp_utc =
                            canonical_events[k].first_timestamp_utc
                     /\ canonical_events'[k].first_timestamp_et =
                            canonical_events[k].first_timestamp_et
                     /\ canonical_events'[k].first_display_time =
                            canonical_events[k].first_display_time
                     /\ canonical_events'[k].first_author = canonical_events[k].first_author
                     /\ canonical_events'[k].claim_summary = canonical_events[k].claim_summary
                     /\ canonical_events'[k].repost_count = canonical_events[k].repost_count
                     /\ canonical_events'[k].update_count = canonical_events[k].update_count]_vars

\* a caller is back from create_canonical_event holding the id of an event whose
\* first report is another stored report, by another author, with another text
C9_Witness ==
    \E p \in Procs :
        /\ JustCreated(p)
        /\ \E k \in DOMAIN canonical_events :
               /\ canonical_events[k].id = frame[p].classification.canonical_event_id
               /\ canonical_events[k].event_hash = frame[p].tweet_record.event_hash
               /\ canonical_events[k].first_tweet_id # frame[p].tweet_db_id
               /\ canonical_events[k].first_author # frame[p].tweet_record.author
               /\ canonical_events[k].claim_summary # frame[p].tweet_record.text

\* the canonical events a stored report is the first report of, and the repost
\* links it is the subject of
FirstReportOf(id) == {k \in DOMAIN canonical_events : canonical_events[k].first_tweet_id = id}
RepostLinksOf(id) == {k \in DOMAIN reposts : reposts[k].repost_tweet_id = id}

\* C10: after any sequence of process_tweet calls, the same report id processed
\* more than once included, every stored report is the first report of at most
\* one canonical event or the subject of at most one repost link, never both.
C10_AtMostOneEventPerReport ==
    (\A p \in Procs : pc[p] = "idle") =>
        \A id \in DOMAIN tweets :
            Cardinality(FirstReportOf(id)) + Cardinality(RepostLinksOf(id)) <= 1

\* the stored reports of one account, by report id
StoredReportsOf(account) ==
    {tweets[i].tweet_id : i \in {j \in DOMAIN tweets : tweets[j].author = account}}

\* C11: each report id goes through classification and the source-metrics update
\* at most once, whoever delivers it and however often: the count of tracked
\* reports of an account never exceeds the number of its stored report ids.
C11_ClassifiedOnce ==
    \A account \in DOMAIN account_metrics :
        account_metrics[account].total_tweets_tracked <=
            Cardinality(StoredReportsOf(account))

maxlen == 50

MIN_TEXT_LENGTH == 80
MIN_IMPORTANCE_SCORE == 20

\* headline_data.get('importance') is None
NoImportance == -1

IMPORTANCE_KEYWORDS ==
    <<<<"s", "t", "r", "i", "k", "e">>,
      <<"a", "t", "t", "a", "c", "k">>,
      <<"m", "i", "s", "s", "i", "l", "e">>,
      <<"d", "r", "o", "n", "e">>,
      <<"e", "x", "p", "l", "o", "s", "i", "o", "n">>,
      <<"k", "i", "l", "l", "e", "d">>,
      <<"i", "r", "a", "n">>,
      <<"i", "s", "r", "a", "e", "l">>,
      <<"h", "e", "z", "b", "o", "l", "l", "a", "h">>,
      <<"h", "a", "m", "a", "s">>,
      <<"i", "d", "f">>,
      <<"i", "r", "g", "c">>,
      <<"b", "r", "e", "a", "k", "i", "n", "g">>,
      <<"u", "r", "g", "e", "n", "t">>,
      <<"c", "o", "n", "f", "i", "r", "m", "e", "d">>,
      <<"o", "f", "f", "i", "c", "i", "a", "l">>>>

SKIP_INDICATORS ==
    <<<<"t", "h", "a", "n", "k", " ", "y", "o", "u">>,
      <<"t", "h", "a", "n", "k", "s">>,
      <<"c", "o", "n", "g", "r", "a", "t", "s">>,
      <<"h", "a", "p", "p", "y", " ", "b", "i", "r", "t", "h", "d", "a", "y">>,
      <<"r", "i", "p", " ">>,
      <<"l", "o", "l">>,
      <<"l", "m", "a", "o">>,
      <<"h", "a", "h", "a">>,
      <<"o", "m", "g">>,
      <<"p", "o", "d", "c", "a", "s", "t">>,
      <<"l", "a", "t", "e", "s", "t", " ", "p", "o", "d">>,
      <<"s", "u", "b", "s", "c", "r", "i", "b", "e">>,
      <<"f", "o", "l", "l", "o", "w", " ", "m", "e">>,
      <<"c", "h", "e", "c", "k", " ", "o", "u", "t">>,
      <<"n", "e", "w", " ", "e", "p", "i", "s", "o", "d", "e">>,
      <<"w", "e", " ", "a", "r", "e", " ", "l", "i", "v", "e">>,
      <<"g", "o", "i", "n", "g", " ", "l", "i", "v", "e">>,
      <<"n", "o", "w", " ", "l", "i", "v", "e">>,
      <<"l", "i", "v", "e", " ", "n", "o", "w">>,
      <<"d", "i", "s", "c", "u", "s", "s", "i", "n", "g">>,
      <<"t", "u", "n", "e", " ", "i", "n">>,
      <<"w", "a", "t", "c", "h", " ", "l", "i", "v", "e">>,
      <<"s", "t", "r", "e", "a", "m">>,
      <<"j", "o", "i", "n", " ", "u", "s">>>>

TextStrike ==
    <<"I", "D", "F", " ", "c", "o", "n", "f", "i", "r", "m", "s", " ", "s", "t",
      "r", "i", "k", "e", " ", "o", "n", " ", "T", "e", "h", "r", "a", "n", " ",
      "a", "i", "r", "p", "o", "r", "t", ".", " ", "D", "r", "o", "n", "e", " ",
      "a", "t", "t", "a", "c", "k", " ", "c", "o", "n", "t", "i", "n", "u", "e",
      "s", " ", "o", "v", "e", "r", "n", "i", "g", "h", "t", ",", " ", "o", "f",
      "f", "i", "c", "i", "a", "l", "s", " ", "s", "a", "i", "d", " ", "o", "n",
      " ", "T", "u", "e", "s", "d", "a", "y">>

TextRaid ==
    <<"B", "r", "e", "a", "k", "i", "n", "g", ":", " ", "I", "D", "F", " ", "s",
      "t", "r", "i", "k", "e", " ", "o", "n", " ", "T", "e", "h", "r", "a", "n",
      " ", "a", "i", "r", "p", "o", "r", "t", ",", " ", "d", "r", "o", "n", "e",
      " ", "a", "t", "t", "a", "c", "k", " ", "c", "o", "n", "t", "i", "n", "u",
      "e", "s", " ", "o", "v", "e", "r", "n", "i", "g", "h", "t", ",", " ", "o",
      "f", "f", "i", "c", "i", "a", "l", "s", " ", "s", "a", "i", "d", " ", "o",
      "n", " ", "T", "u", "e", "s", "d", "a", "y">>

TextCouncil ==
    <<"T", "h", "e", " ", "m", "u", "n", "i", "c", "i", "p", "a", "l", " ", "c",
      "o", "u", "n", "c", "i", "l", " ", "o", "f", " ", "t", "h", "e", " ", "t",
      "o", "w", "n", " ", "m", "e", "t", " ", "a", "g", "a", "i", "n", " ", "o",
      "n", " ", "M", "o", "n", "d", "a", "y", " ", "t", "o", " ", "r", "e", "v",
      "i", "e", "w", " ", "t", "h", "e", " ", "a", "n", "n", "u", "a", "l", " ",
      "b", "u", "d", "g", "e", "t", " ", "p", "l", "a", "n", " ", "i", "n", " ",
      "f", "u", "l", "l">>

TextLink ==
    <<"M", "i", "s", "s", "i", "l", "e", " ", "s", "t", "r", "i", "k", "e", " ",
      "r", "e", "p", "o", "r", "t", "e", "d", " ", "n", "e", "a", "r", " ", "t",
      "h", "e", " ", "p", "o", "r", "t", " ", "h", "t", "t", "p", "s", ":", "/",
      "/", "e", "x", "a", "m", "p", "l", "e", ".", "c", "o", "m", "/", "a", "-",
      "l", "o", "n", "g", "-", "l", "i", "n", "k", "-", "t", "o", "-", "t", "h",
      "e", "-", "s", "t", "o", "r", "y", "-", "a", "b", "o", "u", "t", "-", "t",
      "h", "e", "-", "p", "o", "r", "t">>

TextRetweet ==
    <<"R", "T", " ", "@", "b", "o", "b", ":", " ", "I", "D", "F", " ", "c", "o",
      "n", "f", "i", "r", "m", "s", " ", "s", "t", "r", "i", "k", "e", " ", "o",
      "n", " ", "T", "e", "h", "r", "a", "n", " ", "a", "i", "r", "p", "o", "r",
      "t", ",", " ", "d", "r", "o", "n", "e", " ", "a", "t", "t", "a", "c", "k",
      " ", "c", "o", "n", "t", "i", "n", "u", "e", "s", " ", "o", "v", "e", "r",
      "n", "i", "g", "h", "t", ",", " ", "o", "f", "f", "i", "c", "i", "a", "l",
      "s", " ", "s", "a", "i", "d">>

TextReply ==
    <<"@", "b", "o", "b", " ", "t", "h", "e", " ", "I", "D", "F", " ", "c", "o",
      "n", "f", "i", "r", "m", "s", " ", "a", " ", "s", "t", "r", "i", "k", "e",
      " ", "o", "n", " ", "T", "e", "h", "r", "a", "n", " ", "a", "i", "r", "p",
      "o", "r", "t", ",", " ", "d", "r", "o", "n", "e", " ", "a", "t", "t", "a",
      "c", "k", " ", "c", "o", "n", "t", "i", "n", "u", "e", "s", " ", "o", "v",
      "e", "r", "n", "i", "g", "h", "t", ",", " ", "o", "f", "f", "i", "c", "i",
      "a", "l", "s", " ", "s", "a", "i", "d">>

TextLive ==
    <<"W", "e", " ", "a", "r", "e", " ", "l", "i", "v", "e", " ", "w", "i", "t",
      "h", " ", "t", "h", "e", " ", "l", "a", "t", "e", "s", "t", " ", "o", "n",
      " ", "t", "h", "e", " ", "s", "t", "r", "i", "k", "e", " ", "o", "n", " ",
      "T", "e", "h", "r", "a", "n", " ", "a", "i", "r", "p", "o", "r", "t", " ",
      "a", "n", "d", " ", "t", "h", "e", " ", "d", "r", "o", "n", "e", " ", "a",
      "t", "t", "a", "c", "k", " ", "t", "h", "a", "t", " ", "f", "o", "l", "l",
      "o", "w", "e", "d", " ", "i", "t">>

\* w in s
Contains(s, w) == \E i \in 1..Len(s) : StartsWith(s, i, w)

\* calculate_importance
calculate_importance(text, entities) ==
    LET text_lower == Lower(text)
        keywords == {k \in DOMAIN IMPORTANCE_KEYWORDS : Contains(text_lower, IMPORTANCE_KEYWORDS[k])}
        location_entities == {k \in DOMAIN entities : entities[k].type \in {"GPE", "LOC"}}
        military_entities == {k \in DOMAIN entities : entities[k].type = "MILITARY_ORG"}
    IN  Cardinality(keywords) * 10 + Len(entities) * 5
        + Cardinality(location_entities) * 8 + Cardinality(military_entities) * 15

\* the index i is inside a word of s that starts with 'http'
InHttpWord(s, i) ==
    \E a \in 1..i :
        /\ \A k \in a..i : ~IsSpace(s[k])
        /\ (a = 1 \/ IsSpace(s[a - 1]))
        /\ StartsWith(s, a, Http)

\* ' '.join(word for word in text.split() if not word.startswith('http'))
clean_text(text) ==
    join_split(KeepIndices(text, {i \in DOMAIN text : ~InHttpWord(text, i)}, 1))

\* is_newsworthy, its first component
is_newsworthy(text, entities, importance) ==
    LET has_location == \E k \in DOMAIN entities : entities[k].type \in {"GPE", "LOC"}
        has_org == \E k \in DOMAIN entities : entities[k].type \in {"ORG", "MILITARY_ORG"}
    IN  IF Len(clean_text(text)) < MIN_TEXT_LENGTH THEN FALSE
        ELSE IF \E k \in DOMAIN SKIP_INDICATORS : Contains(Lower(text), SKIP_INDICATORS[k])
        THEN FALSE
        ELSE IF importance < MIN_IMPORTANCE_SCORE /\ ~(has_location \/ has_org) THEN FALSE
        ELSE TRUE

\* a list that grows without a bound
list_append(queue, item) ==
    Append(queue, item)

\* deque.append with maxlen: a full deque drops its leftmost item
deque_append(queue, item) ==
    IF Len(queue) = maxlen THEN Append(Tail(queue), item) ELSE Append(queue, item)

\* list.sort(key=importance, reverse=True): descending, and stable (items of
\* equal importance keep their order)
RECURSIVE sort_by_importance(_)
sort_by_importance(headlines) ==
    IF headlines = <<>> THEN <<>>
    ELSE LET scores == {headlines[i].importance : i \in DOMAIN headlines}
             top == CHOOSE x \in scores : \A y \in scores : x >= y
         IN  SelectSeq(headlines, LAMBDA h : h.importance = top)
             \o sort_by_importance(SelectSeq(headlines, LAMBDA h : h.importance # top))

\* a headline's 'text' is held by name: the characters of the text of a name
TextOf(name) ==
    CASE name = "strike" -> TextStrike
      [] name = "raid" -> TextRaid
      [] name = "council" -> TextCouncil
      [] name = "link" -> TextLink
      [] name = "retweet" -> TextRetweet
      [] name = "reply" -> TextReply
      [] name = "live" -> TextLive
      [] OTHER -> <<>>

\* format_digest_tweet, "Get first sentence or truncate"
first_sentence(text) ==
    LET head == SubSeq(text, 1, Min({200, Len(text)}))
        stops == {i \in 1..(Len(head) - 1) : head[i] = "." /\ head[i + 1] = " "}
    IN  IF stops # {} THEN SubSeq(text, 1, Min(stops))
        ELSE IF Len(text) > 160 THEN SubSeq(text, 1, 157) \o <<".", ".", ".">>
        ELSE text

\* format_digest_tweet: the text, the author and the time of day of the top
\* headline ("{text}\n\nFirst: @{author} . {time_str}", which stays under 280
\* characters for the first sentence of a text and an author name of X), or None
format_digest_tweet(headlines) ==
    IF headlines = <<>> THEN NoTweet
    ELSE [text |-> first_sentence(clean_text(TextOf(headlines[1].text))),
          author |-> headlines[1].author,
          time_str |-> headlines[1].display_time % 1440]

(***************************************************************************)
(* The headlines submitted to add_headline                                  *)
(***************************************************************************)
Headline(text, author, display_time, importance, entities, event_id) ==
    [text |-> text, author |-> author, display_time |-> display_time, importance |-> importance, entities |-> entities, event_id |-> event_id]

EntMilitaryIDF == Entity("MILITARY_ORG", <<"I", "D", "F">>)

HeadlinePool ==
    {Headline("strike", "alice", 20, NoImportance, <<EntMilitaryIDF, EntTehran>>, 1),
     Headline("strike", "bob", 10, NoImportance, <<EntMilitaryIDF, EntTehran>>, 1),
     Headline("raid", "carol", 10, 83, <<EntMilitaryIDF, EntTehran>>, 2),
     Headline("council", "dave", 30, NoImportance, <<EntTehran>>, NoId),
     Headline("council", "dave", 30, NoImportance, <<>>, NoId),
     Headline("link", "erin", 40, NoImportance, <<>>, NoId),
     Headline("retweet", "erin", 40, NoImportance, <<EntMilitaryIDF>>, NoId),
     Headline("reply", "erin", 40, NoImportance, <<EntMilitaryIDF>>, NoId),
     Headline("live", "erin", 40, 90, <<EntTehran>>, NoId)}

\* add_headline, lines 123-134, for each headline of the pool: its importance
\* (computed when the caller gave none) and whether it is newsworthy
Filtered ==
    [h \in HeadlinePool |->
        LET importance == IF h.importance = NoImportance
                          THEN calculate_importance(TextOf(h.text), h.entities)
                          ELSE h.importance
        IN  [importance |-> importance,
             is_news |-> is_newsworthy(TextOf(h.text), h.entities, importance)]]

\* the calls of add_headline a behaviour starts
MaxAdds == 2

\* a queue one short of full: maxlen - 1 accepted headlines of maxlen - 1 events
RECURSIVE queued_headlines(_)
queued_headlines(n) ==
    IF n = 0 THEN <<>>
    ELSE Append(queued_headlines(n - 1),
                [added_at |-> 0] @@
                Headline("strike", "alice", n, 50, <<>>, 100 + n))

InitDigest ==
    /\ pending_headlines \in {<<>>, queued_headlines(maxlen - 1)}
    /\ DigestIdle
    /\ rcall = NoReliabilityCall
    /\ TimerUnset
    /\ fcall = NoFingerprintCall
    /\ conn_type = "sqlite"
    /\ StoreEmpty
    /\ IngestionIdle
    /\ sentence_model = [loaded |-> FALSE, cosine |-> RInt(0)]
    /\ incoming_tweet = NoRecord
    /\ matches = <<>>
    /\ similarity_score = <<>>
    /\ best_match = 0
    /\ best_similarity = RInt(0)
    /\ classification = NoClassification

\* the scan of add_headline that finds no duplicate at all
no_pending_event(queue, event_id) ==
    FALSE

\* add_headline, "Deduplicate by event_id": a truthy event_id that a pending
\* headline carries
has_pending_event(queue, event_id) ==
    /\ event_id # NoId
    /\ \E i \in DOMAIN queue : queue[i].event_id = event_id

\* a publish check that takes every answer for an id
posted_always(tweet_id) ==
    TRUE

\* post_digest, "if tweet_id:": post_tweet answered with the id of the tweet
posted(tweet_id) ==
    tweet_id # NoneStr

\* a lock that every thread gets at once
lock_ignored(holder) ==
    TRUE

\* threading.Lock: acquire goes through when no thread holds the lock
lock_free(holder) ==
    holder = NoneStr

\* a thread returns from its call; post_digest called by check_digest_timer
\* returns to it
Return(t, result) ==
    /\ dpc' = [dpc EXCEPT ![t] = IF dframe[t].op = "check_digest_timer" THEN "reset_timer"
                                 ELSE "idle"]
    /\ dframe' = [dframe EXCEPT ![t].result = result]

\* add_headline up to the importance: the RT and reply checks
AddHeadline(t, headline_data) ==
    /\ dpc[t] = "idle"
    /\ adds < MaxAdds
    /\ adds' = adds + 1
    /\ IF \/ StartsWith(TextOf(headline_data.text), 1, <<"R", "T", " ", "@">>)
          \/ StartsWith(TextOf(headline_data.text), 1, <<"@">>)
       THEN /\ dframe' = [dframe EXCEPT ![t] = [NoCall EXCEPT !.op = "add_headline",
                                                              !.headline_data = headline_data]]
            /\ UNCHANGED dpc
       ELSE /\ dframe' = [dframe EXCEPT ![t] = [NoCall EXCEPT !.op = "add_headline",
                                                              !.headline_data = headline_data]]
            /\ dpc' = [dpc EXCEPT ![t] = "is_newsworthy"]
    /\ UNCHANGED <<pending_headlines, lock, cvars, sentence_model, svars, pvars, rvars, fvars, tvars>>

\* add_headline: "Calculate importance early for filtering" and "Check if
\* newsworthy"
FilterHeadline(t) ==
    /\ dpc[t] = "is_newsworthy"
    /\ LET filtered == Filtered[dframe[t].headline_data]
       IN  /\ dframe' = [dframe EXCEPT ![t].headline_data.importance = filtered.importance]
           /\ dpc' = [dpc EXCEPT ![t] = IF filtered.is_news THEN "add_lock" ELSE "idle"]
    /\ UNCHANGED <<pending_headlines, lock, adds, cvars, sentence_model, svars, pvars, rvars, fvars, tvars>>

\* with _lock: the thread gets the lock when it is free
AcquireLock(t) ==
    /\ dpc[t] \in {"add_lock", "get_lock", "clear_lock", "timer_lock"}
    /\ lock_free(lock)
    /\ lock' = t
    /\ dpc' = [dpc EXCEPT ![t] = CASE dpc[t] = "add_lock" -> "add_locked"
                                   [] dpc[t] = "get_lock" -> "get_locked"
                                   [] dpc[t] = "timer_lock" -> "timer_locked"
                                   [] OTHER -> "clear_locked"]
    /\ UNCHANGED <<pending_headlines, dframe, adds, cvars, sentence_model, svars, pvars, rvars, fvars, tvars>>

\* add_headline under the lock: added_at, the scan for the event_id, the append
AppendHeadline(t) ==
    /\ dpc[t] = "add_locked"
    /\ LET h == [added_at |-> adds] @@ dframe[t].headline_data
       IN  /\ IF has_pending_event(pending_headlines, h.event_id)
              THEN UNCHANGED pending_headlines
              ELSE pending_headlines' = deque_append(pending_headlines, h)
           /\ dframe' = [dframe EXCEPT ![t].headline_data = h]
    /\ lock' = NoneStr
    /\ dpc' = [dpc EXCEPT ![t] = "idle"]
    /\ UNCHANGED <<adds, cvars, sentence_model, svars, pvars, rvars, fvars, tvars>>

\* post_digest is called
PostDigest(t) ==
    /\ dpc[t] = "idle"
    /\ dframe' = [dframe EXCEPT ![t] = [NoCall EXCEPT !.op = "post_digest"]]
    /\ dpc' = [dpc EXCEPT ![t] = "get_lock"]
    /\ UNCHANGED <<pending_headlines, lock, adds, cvars, sentence_model, svars, pvars, rvars, fvars, tvars>>

\* get_pending_headlines (the copy under the lock, the sort after it) and
\* post_digest up to the call of post_tweet
GetPendingHeadlines(t) ==
    /\ dpc[t] = "get_locked"
    /\ lock' = NoneStr
    /\ LET headlines == sort_by_importance(pending_headlines)
           tweet_text == format_digest_tweet(headlines)
       IN  IF headlines = <<>> \/ tweet_text = NoTweet
           THEN Return(t, NoneStr)
           ELSE /\ dframe' = [dframe EXCEPT ![t].headlines = headlines,
                                            ![t].tweet_text = tweet_text]
                /\ dpc' = [dpc EXCEPT ![t] = "post_tweet"]
    /\ UNCHANGED <<pending_headlines, adds, cvars, sentence_model, svars, pvars, rvars, fvars, tvars>>

\* tweet_id = post_tweet(tweet_text): the id of the posted tweet, or None when
\* the response has no data or create_tweet raised
PostTweet(t, tweet_id) ==
    /\ dpc[t] = "post_tweet"
    /\ IF posted(tweet_id)
       THEN /\ dframe' = [dframe EXCEPT ![t].tweet_id = tweet_id]
            /\ dpc' = [dpc EXCEPT ![t] = "clear_lock"]
       ELSE Return(t, NoneStr)
    /\ UNCHANGED <<pending_headlines, lock, adds, cvars, sentence_model, svars, pvars, rvars, fvars, tvars>>

\* clear_pending_headlines is called on its own
ClearCall(t) ==
    /\ dpc[t] = "idle"
    /\ dframe' = [dframe EXCEPT ![t] = [NoCall EXCEPT !.op = "clear_pending_headlines"]]
    /\ dpc' = [dpc EXCEPT ![t] = "clear_lock"]
    /\ UNCHANGED <<pending_headlines, lock, adds, cvars, sentence_model, svars, pvars, rvars, fvars, tvars>>

\* a clear that removes nothing
clear_nothing(queue) ==
    queue

\* _pending_headlines.clear()
clear(queue) ==
    <<>>

\* clear_pending_headlines under the lock; post_digest then returns tweet_id
ClearPendingHeadlines(t) ==
    /\ dpc[t] = "clear_locked"
    /\ pending_headlines' = clear(pending_headlines)
    /\ lock' = NoneStr
    /\ Return(t, dframe[t].tweet_id)
    /\ UNCHANGED <<adds, cvars, sentence_model, svars, pvars, rvars, fvars, tvars>>

NextDigest ==
    \E t \in Threads :
        \/ \E headline_data \in HeadlinePool : AddHeadline(t, headline_data)
        \/ FilterHeadline(t)
        \/ AcquireLock(t)
        \/ AppendHeadline(t)
        \/ PostDigest(t)
        \/ GetPendingHeadlines(t)
        \/ \E tweet_id \in {"9001", NoneStr} : PostTweet(t, tweet_id)
        \/ ClearCall(t)
        \/ ClearPendingHeadlines(t)

SpecDigest == InitDigest /\ [][NextDigest]_vars


(***************************************************************************)
(* Claims about the digest queue (SpecDigest)                               *)
(***************************************************************************)
\* the thread whose call takes this step
Steps(t) == dpc'[t] # dpc[t] \/ dframe'[t] # dframe[t]

\* the headline add_headline of thread t has taken through the lock
WentThroughLock(t) ==
    /\ dpc[t] = "idle"
    /\ dframe[t].op = "add_headline"
    /\ "added_at" \in DOMAIN dframe[t].headline_data

C14_ClearOnlyAfterPublish ==
    [][\A t \in Threads :
        (dframe[t].op = "post_digest" /\ Steps(t)) =>
            /\ pending_headlines' # pending_headlines =>
                   /\ dframe[t].tweet_id # NoneStr
                   /\ dframe[t].tweet_text # NoTweet
            /\ (dpc'[t] = "idle" /\ dframe[t].tweet_id = NoneStr) =>
                   /\ dframe'[t].result = NoneStr
                   /\ pending_headlines' = pending_headlines]_vars

\* post_digest returned None after post_tweet gave no id for a formatted tweet,
\* and its headlines are still pending
C14_Witness ==
    \E t \in Threads :
        /\ dpc[t] = "idle"
        /\ dframe[t].op = "post_digest"
        /\ dframe[t].tweet_text # NoTweet
        /\ dframe[t].tweet_id = NoneStr
        /\ dframe[t].result = NoneStr
        /\ Len(pending_headlines) = Len(dframe[t].headlines)
        /\ \A i \in DOMAIN pending_headlines :
               \E j \in DOMAIN dframe[t].headlines : dframe[t].headlines[j] = pending_headlines[i]

\* the headline a post_digest call of thread t is about to publish
Publishing(t) == dframe[t].headlines[1]

\* C15: the headline post_digest publishes has the highest importance of the
\* pending headlines, and the earliest report time among those of that importance
C15_TopThenEarliest ==
    \A t \in Threads :
        dpc[t] = "post_tweet" =>
            \A i \in DOMAIN dframe[t].headlines :
                LET h == dframe[t].headlines[i]
                IN  \/ h.importance < Publishing(t).importance
                    \/ /\ h.importance = Publishing(t).importance
                       /\ h.display_time >= Publishing(t).display_time

\* C16: every headline post_digest publishes has an importance of at least
\* MIN_IMPORTANCE_SCORE
C16_PublishedAboveFloor ==
    \A t \in Threads :
        dpc[t] = "post_tweet" => Publishing(t).importance >= MIN_IMPORTANCE_SCORE

\* C17: the queue never holds more than maxlen headlines, and a headline
\* appended to a full queue evicts the oldest one: the others move up one
\* place in their order and the new headline is last
C17_BoundedEvictOldest ==
    /\ [](Len(pending_headlines) <= maxlen)
    /\ [][\A t \in Threads :
            (/\ dpc[t] = "add_locked"
             /\ Steps(t)
             /\ Len(pending_headlines) = maxlen
             /\ ~has_pending_event(pending_headlines, dframe[t].headline_data.event_id)) =>
                /\ Len(pending_headlines') = maxlen
                /\ \A i \in 1..(maxlen - 1) : pending_headlines'[i] = pending_headlines[i + 1]
                /\ pending_headlines'[maxlen] = dframe'[t].headline_data]_vars

\* a headline went into a full queue: the queue is full, its first headline is
\* the second one of the initial queue and its last one the headline just added
C17_Witness ==
    \E t \in Threads :
        /\ WentThroughLock(t)
        /\ Len(pending_headlines) = maxlen
        /\ pending_headlines[1] = queued_headlines(maxlen - 1)[2]
        /\ pending_headlines[maxlen] = dframe[t].headline_data

\* the positions of a call inside a "with _lock:" block
InLock == {"add_locked", "get_locked", "clear_locked"}

\* C18: the queue is changed, copied (the snapshot of get_pending_headlines)
\* and scanned (the dedup of add_headline, which stamps added_at) only by the
\* thread that holds the lock, inside a block under the lock that the step
\* leaves; at most one thread is inside such a block;
\* and no thread holds the lock at the importance / newsworthiness computation
\* or at the call of post_tweet
C18_QueueUnderLock ==
    /\ [](\A t, u \in Threads : (dpc[t] \in InLock /\ dpc[u] \in InLock) => t = u)
    /\ [](\A t \in Threads : dpc[t] \in InLock <=> lock = t)
    /\ [](\A t \in Threads : dpc[t] \in {"is_newsworthy", "post_tweet"} => lock # t)
    /\ [][\A t \in Threads :
            (/\ Steps(t)
             /\ \/ pending_headlines' # pending_headlines
                \/ dframe'[t].headlines \notin {<<>>, dframe[t].headlines}
                \/ /\ "added_at" \in DOMAIN dframe'[t].headline_data
                   /\ "added_at" \notin DOMAIN dframe[t].headline_data) =>
                /\ lock = t
                /\ dpc[t] \in InLock
                /\ lock' = NoneStr]_vars

\* one thread is under the lock about to append while the other waits for the
\* lock with its own headline or is inside post_tweet
C18_Witness ==
    \E t, u \in Threads :
        /\ dpc[t] = "add_locked"
        /\ dpc[u] \in {"add_lock", "post_tweet"}
        /\ lock = t

(***************************************************************************)
(* reliability.py: calculate_reliability_score                             *)
(***************************************************************************)
\* the score of an account without a row or without tracked reports
DefaultScore == Frac(50, 100)

\* metrics.get(key, default) on a row of account_metrics; a column the row
\* was inserted without holds its DEFAULT 0
metrics_get(metrics, key) ==
    IF key \in DOMAIN metrics THEN metrics[key] ELSE 0

\* tier_bonuses.get(tier, 0.02)
tier_bonus(tier) ==
    CASE tier \in {"1A_OSINT", "1B_OFFICIAL", "1C_WIRE"} -> Frac(10, 100)
      [] tier = "2_AMPLIFIER" -> Frac(5, 100)
      [] tier = "3_VERIFICATION" -> Frac(8, 100)
      [] OTHER -> Frac(2, 100)

RMin(x, y) == IF RLt(y, x) THEN y ELSE x
RMax(x, y) == IF RLt(x, y) THEN y ELSE x

\* a score returned as computed
unclamped(final_score) ==
    final_score

\* max(0.00, min(1.00, final_score))
clamp(final_score) ==
    RMax(RInt(0), RMin(RInt(1), final_score))

\* the four factors and their clamped sum, for a row with tracked reports
score_of(metrics) ==
    LET total == metrics_get(metrics, "total_tweets_tracked")
        originals == metrics_get(metrics, "total_original_reports")
        updates == metrics_get(metrics, "total_updates")
        false_alarms == metrics_get(metrics, "false_alarm_count")
        original_score == RMul(Frac(originals, total), Frac(40, 100))
        update_score == RMin(RMul(Frac(updates, total), RInt(2)), Frac(30, 100))
        false_alarm_score == RMul(RSub(RInt(1), Frac(false_alarms, total)), Frac(20, 100))
        tier_score == tier_bonus(metrics.tier)
    IN  clamp(RAdd(RAdd(RAdd(original_score, update_score), false_alarm_score), tier_score))

\* calculate_reliability_score: the row of the account, if any, is scored
calculate_reliability_score(account) ==
    IF account \notin DOMAIN account_metrics THEN DefaultScore
    ELSE IF metrics_get(account_metrics[account], "total_tweets_tracked") = 0 THEN DefaultScore
    ELSE score_of(account_metrics[account])

\* the largest counter of a row drawn for account_metrics
MaxCount == 3

Tiers == {"1A_OSINT", "1B_OFFICIAL", "1C_WIRE", "2_AMPLIFIER", "3_SECONDARY", "3_VERIFICATION", "4_OTHER"}

MetricsRow(tier, total, originals, reposted, updates, false_alarms) ==
    [tier |-> tier, total_tweets_tracked |-> total, total_original_reports |-> originals, total_reposts |-> reposted, total_updates |-> updates, false_alarm_count |-> false_alarms]

\* rows update_account_metrics and mark_false_alarm can leave: every tracked
\* report counted at most once as original, repost or update; false alarms
\* counted per marked event, without a bound by the tracked reports
Counters ==
    {c \in (0..MaxCount) \X (0..MaxCount) \X (0..MaxCount) : c[2] + c[3] <= c[1]}

MetricsRows ==
    {MetricsRow(tier, c[1], c[2], c[1] - c[2] - c[3], c[3], false_alarms) :
        tier \in Tiers, c \in Counters, false_alarms \in 0..(MaxCount + 1)}

\* 100 tracked, 40 original, 10 update, 5 false alarms, top tier
DocumentedRow == MetricsRow("1A_OSINT", 100, 40, 50, 10, 5)

Accounts == {"alice", "bob"}

(***************************************************************************)
(* reliability.py: detect_verification_chain                               *)
(***************************************************************************)
\* 2026-11-01 06:00:00 UTC, in seconds of that day: Eastern clocks go back
\* from 02:00 EDT to 01:00 EST
FallBack == 21600

\* utc_timestamp.astimezone(DISPLAY_TIMEZONE).utcoffset(), in seconds west of
\* UTC, on that day
eastern_offset(utc_timestamp) ==
    IF utc_timestamp < FallBack THEN 4 * 3600 ELSE 5 * 3600

\* str(eastern_dt), the value insert_tweet stores in tweets.timestamp_et:
\* "2026-11-01 HH:MM:SS-04:00" as <<seconds of the wall clock, hours of the
\* offset>>
str_eastern(utc_timestamp) ==
    <<utc_timestamp - eastern_offset(utc_timestamp), eastern_offset(utc_timestamp) \div 3600>>

\* the order of two stored timestamp_et values of that day as TEXT: the wall
\* clock first, then the offset ("-04:00" before "-05:00")
text_before(a, b) ==
    \/ a[1] < b[1]
    \/ a[1] = b[1] /\ a[2] < b[2]

\* r.get('author_tier', '').startswith('1'), for the tiers of config.TIER_ORDER
starts_with_1(tier) ==
    tier \in {"1A_OSINT", "1B_OFFICIAL", "1C_WIRE"}

\* the reposts of the event joined with their tweets, ORDER BY t.timestamp_et
\* ASC (rows of one timestamp in the order of their ids)
RECURSIVE order_reposts(_)
order_reposts(rows) ==
    IF rows = {} THEN <<>>
    ELSE LET first == CHOOSE r \in rows : \A q \in rows :
                          \/ r = q
                          \/ text_before(tweets[r.repost_tweet_id].timestamp_et,
                                         tweets[q.repost_tweet_id].timestamp_et)
                          \/ /\ tweets[r.repost_tweet_id].timestamp_et = tweets[q.repost_tweet_id].timestamp_et
                             /\ r.id < q.id
         IN  <<[author |-> tweets[first.repost_tweet_id].author,
                author_tier |-> tweets[first.repost_tweet_id].author_tier,
                display_time |-> tweets[first.repost_tweet_id].display_time] @@ first>>
             \o order_reposts(rows \ {first})

\* the first row of the list from a tier that starts with '1', if any
first_tier_1(rows) ==
    LET at == {i \in DOMAIN rows : starts_with_1(rows[i].author_tier)}
    IN  IF at = {} THEN NoTime
        ELSE rows[CHOOSE i \in at : \A j \in at : i <= j].time_delta_seconds

\* detect_verification_chain (of the returned dict, the fields about the
\* status and the time to verification)
detect_verification_chain(event_id) ==
    IF ~\E e \in DOMAIN canonical_events :
            /\ canonical_events[e].id = event_id
            /\ canonical_events[e].first_tweet_id \in DOMAIN tweets
    THEN [status |-> "error"]
    ELSE LET linked == order_reposts({reposts[i] : i \in {j \in DOMAIN reposts :
                                          reposts[j].canonical_event_id = event_id}})
             tier_1_count == Cardinality({i \in DOMAIN linked : starts_with_1(linked[i].author_tier)})
             wire_verified == \E i \in DOMAIN linked : linked[i].author_tier = "1C_WIRE"
             official_verified == \E i \in DOMAIN linked : linked[i].author_tier = "1B_OFFICIAL"
         IN  [event_id |-> event_id,
              verification_status |->
                  IF official_verified THEN "official_confirmed"
                  ELSE IF wire_verified THEN "wire_verified"
                  ELSE IF tier_1_count >= 3 THEN "cross_verified"
                  ELSE IF tier_1_count >= 1 THEN "partially_verified"
                  ELSE "unverified",
              tier_1_verifiers |-> tier_1_count,
              wire_verified |-> wire_verified,
              official_verified |-> official_verified,
              time_to_verification_seconds |-> first_tier_1(linked),
              total_reposts |-> Len(linked)]

\* the reports linked to the event, at most: one per half hour after the
\* first report
MaxLinked == 4

\* the first report of the event at 05:00 UTC (01:00 EDT), the k-th linked
\* report half an hour after the one before
ReportTimeOf(k) == 18000 + 1800 * k

LinkedTiers == {"1A_OSINT", "1B_OFFICIAL", "1C_WIRE", "2_AMPLIFIER", "3_SECONDARY"}

\* a row of tweets as insert_tweet stores it (the columns the module reads)
StoredTweet(id, author, author_tier, timestamp_utc) ==
    [id |-> id, author |-> author, author_tier |-> author_tier, timestamp_utc |-> timestamp_utc, timestamp_et |-> str_eastern(timestamp_utc), display_time |-> display_time_of(timestamp_utc - eastern_offset(timestamp_utc))]

\* tweets and reposts after the first report and the linked reports tier[k]
\* of the slots 1..k ("absent": no report in the slot), each stored when it
\* was made, with the seconds since the first report as its time delta
RECURSIVE linked_store(_, _)
linked_store(tier, k) ==
    IF k = 0
    THEN [tweets |-> <<StoredTweet(1, "first", "3_SECONDARY", ReportTimeOf(0))>>,
          reposts |-> <<>>]
    ELSE LET before == linked_store(tier, k - 1)
             id == Len(before.tweets) + 1
         IN  IF tier[k] = "absent" THEN before
             ELSE [tweets |-> Append(before.tweets, StoredTweet(id, "linked", tier[k], ReportTimeOf(k))),
                   reposts |-> Append(before.reposts,
                                      [id |-> Len(before.reposts) + 1,
                                       canonical_event_id |-> 1,
                                       repost_tweet_id |-> id,
                                       time_delta_seconds |-> ReportTimeOf(k) - ReportTimeOf(0),
                                       classification |-> "REPOST"])]

FirstEvent ==
    [id |-> 1, first_tweet_id |-> 1, first_author |-> "first", first_timestamp_utc |-> ReportTimeOf(0), first_timestamp_et |-> str_eastern(ReportTimeOf(0))]

\* a store with one account's metrics and no event, or with one event, its
\* linked reports and no metrics
InitReliability ==
    /\ conn_type = "sqlite"
    /\ entity_rows = <<>>
    /\ url_rows = <<>>
    /\ \/ /\ account_metrics \in {<<>>} \cup {[a \in {"alice"} |-> row] : row \in MetricsRows \cup {DocumentedRow}}
          /\ tweets = <<>>
          /\ reposts = <<>>
          /\ canonical_events = <<>>
       \/ /\ account_metrics = <<>>
          /\ \E tier \in [1..MaxLinked -> LinkedTiers \cup {"absent"}] :
                /\ tweets = linked_store(tier, MaxLinked).tweets
                /\ reposts = linked_store(tier, MaxLinked).reposts
          /\ canonical_events = <<FirstEvent>>
    /\ rcall = NoReliabilityCall
    /\ TimerUnset
    /\ fcall = NoFingerprintCall
    /\ IngestionIdle
    /\ DigestIdle
    /\ pending_headlines = <<>>
    /\ sentence_model = [loaded |-> FALSE, cosine |-> RInt(0)]
    /\ incoming_tweet = NoRecord
    /\ matches = <<>>
    /\ similarity_score = <<>>
    /\ best_match = 0
    /\ best_similarity = RInt(0)
    /\ classification = NoClassification

CalculateReliabilityScore(account) ==
    /\ rcall' = [op |-> "calculate_reliability_score",
                 account |-> account,
                 result |-> calculate_reliability_score(account)]
    /\ UNCHANGED <<cvars, sentence_model, svars, pvars, dvars, fvars, tvars>>

DetectVerificationChain(event_id) ==
    /\ rcall' = [op |-> "detect_verification_chain",
                 event_id |-> event_id,
                 result |-> detect_verification_chain(event_id)]
    /\ UNCHANGED <<cvars, sentence_model, svars, pvars, dvars, fvars, tvars>>

NextReliability ==
    \/ \E account \in Accounts : CalculateReliabilityScore(account)
    \/ \E event_id \in {1, 2} : DetectVerificationChain(event_id)

SpecReliability == InitReliability /\ [][NextReliability]_vars

(***************************************************************************)
(* Claims about reliability.py (SpecReliability)                           *)
(***************************************************************************)
\* 0.40 * (original / total) + min(2 * (updates / total), 0.30)
\*   + 0.20 * (1 - false_alarms / total) + tier bonus
WeightedSum(total, original, updates, false_alarms, bonus) ==
    RAdd(RAdd(RAdd(RMul(Frac(40, 100), Frac(original, total)),
                   RMin(RMul(RInt(2), Frac(updates, total)), Frac(30, 100))),
              RMul(Frac(20, 100), RSub(RInt(1), Frac(false_alarms, total)))),
         bonus)

\* C19: calculate_reliability_score returns 0.50 for an account without a row
\* or with zero tracked reports; otherwise the weighted sum of the four
\* factors, clamped to [0, 1]; the result lies in [0, 1] for all counters;
\* and the documented row (100 tracked, 40 original, 10 updates, 5 false
\* alarms, top tier) scores 0.65
C19_ReliabilityScore ==
    rcall.op = "calculate_reliability_score" =>
        /\ ~RLt(rcall.result, RInt(0))
        /\ ~RLt(RInt(1), rcall.result)
        /\ IF rcall.account \notin DOMAIN account_metrics
           THEN rcall.result = Frac(1, 2)
           ELSE LET row == account_metrics[rcall.account]
                    sum == WeightedSum(row.total_tweets_tracked, row.total_original_reports,
                                       row.total_updates, row.false_alarm_count,
                                       tier_bonus(row.tier))
                IN  /\ row.total_tweets_tracked = 0 => rcall.result = Frac(1, 2)
                    /\ row.total_tweets_tracked > 0 =>
                           rcall.result = IF RLt(sum, RInt(0)) THEN RInt(0)
                                          ELSE IF RLt(RInt(1), sum) THEN RInt(1)
                                          ELSE sum
                    /\ row = DocumentedRow => rcall.result = Frac(65, 100)

\* an account with more false alarms than tracked reports was scored, and the
\* negative sum came back as 0
C19_Witness ==
    /\ rcall.op = "calculate_reliability_score"
    /\ rcall.account \in DOMAIN account_metrics
    /\ account_metrics[rcall.account].total_tweets_tracked > 0
    /\ account_metrics[rcall.account].false_alarm_count >
           account_metrics[rcall.account].total_tweets_tracked
    /\ rcall.result = RInt(0)

\* the documented row was scored
DocumentedRowScored ==
    /\ rcall.op = "calculate_reliability_score"
    /\ rcall.account \in DOMAIN account_metrics
    /\ account_metrics[rcall.account] = DocumentedRow
    /\ rcall.result = Frac(65, 100)

\* the linked reports of the event (rows of reposts) from tier-1 sources
Tier1Links(event_id) ==
    {i \in DOMAIN reposts :
        /\ reposts[i].canonical_event_id = event_id
        /\ starts_with_1(tweets[reposts[i].repost_tweet_id].author_tier)}

\* the tiers of the event's linked reports
LinkedTiersOf(event_id) ==
    {tweets[reposts[i].repost_tweet_id].author_tier :
        i \in {j \in DOMAIN reposts : reposts[j].canonical_event_id = event_id}}

\* the status of the event by first-true-wins priority
StatusByPriority(event_id) ==
    IF "1B_OFFICIAL" \in LinkedTiersOf(event_id) THEN "official_confirmed"
    ELSE IF "1C_WIRE" \in LinkedTiersOf(event_id) THEN "wire_verified"
    ELSE IF Cardinality(Tier1Links(event_id)) >= 3 THEN "cross_verified"
    ELSE IF Cardinality(Tier1Links(event_id)) >= 1 THEN "partially_verified"
    ELSE "unverified"

\* the status half of C20 on its own
StatusResolvedByPriority ==
    (rcall.op = "detect_verification_chain" /\ "verification_status" \in DOMAIN rcall.result) =>
        rcall.result.verification_status = StatusByPriority(rcall.event_id)

\* C20: detect_verification_chain reports the status of the event by priority
\* (official, wire, at least 3 tier-1 links, at least 1, none), and as time to
\* first verification the time delta of the tier-1 linked report that was
\* made first (none without a tier-1 link)
C20_StatusAndFirstVerification ==
    (rcall.op = "detect_verification_chain" /\ "verification_status" \in DOMAIN rcall.result) =>
        /\ rcall.result.verification_status = StatusByPriority(rcall.event_id)
        /\ LET tier_1 == Tier1Links(rcall.event_id)
               made(i) == tweets[reposts[i].repost_tweet_id].timestamp_utc
           IN  IF tier_1 = {} THEN rcall.result.time_to_verification_seconds = NoTime
               ELSE \E i \in tier_1 :
                        /\ \A j \in tier_1 : made(i) <= made(j)
                        /\ rcall.result.time_to_verification_seconds = reposts[i].time_delta_seconds

(***************************************************************************)
(* fingerprinting.py called on its own (SpecFingerprint): a call of        *)
(* normalize_text, generate_event_hash or extract_entities with arguments  *)
(* drawn from the pools below                                              *)
(***************************************************************************)
MaxTextLen == 4
MaxEntities == 3
MaxUrls == 2

\* the characters the short texts are made of: both cases of a letter of
\* "www", a letter of no pattern, a punctuation mark, the mention and the
\* hashtag signs and the blank
TextAlphabet == {"W", "w", "x", ".", "@", "#", " "}

ShortTexts == UNION {[1..n -> TextAlphabet] : n \in 0..MaxTextLen}

LongTexts ==
    {<<"H", "T", "T", "P", "S", ":", "/", "/", "E", "x", "a", "m", "p", "l", "e", ".", "c", "o", "m", "/", "a">>, <<"H", "T", "T", "P">>, <<"W", "W", "W", ".", "E", "x", "a", "m", "p", "l", "e", ".", "c", "o", "m">>,
     <<"s", "e", "e", " ", "h", "t", "t", "p", ":", "/", "/", "t", ".", "c", "o", "/", "x", " ", "n", "o", "w">>, <<"@", "b", "o", "b", " ", "#", "T", "e", "h", "r", "a", "n", " ", "h", "i", "t", ",", " ", "a", "g", "a", "i", "n", "!">>, TextIdfHitBang}

\* texts of the hash: the first two have one normalized text
HashTexts == {TextIdfHit, TextIdfHitBang, <<"T", "e", "h", "r", "a", "n", " ", "h", "i", "t">>}

\* entities of the hash: two of one value up to case and of different types,
\* a location, a weapon, and a person (not a key type)
HashEntities ==
    {EntIDF, EntIdf, EntTehran, Entity("WEAPON", <<"F", "-", "1", "6">>), Entity("PERSON", <<"B", "i", "d", "e", "n">>)}

HashUrls == {<<"h", "t", "t", "p", "s", ":", "/", "/", "b", ".", "o", "r", "g", "/", "y">>, <<"h", "t", "t", "p", ":", "/", "/", "a", ".", "c", "o", "m", "/", "x">>}

\* texts of the entity extraction: names, weapons and military organisations
\* mentioned once, twice, and in two spellings
EntityTexts ==
    {<<>>, TextIdfHit, <<"T", "e", "h", "r", "a", "n", " ", "h", "i", "t">>, <<"n", "o", " ", "n", "a", "m", "e", "s", " ", "h", "e", "r", "e">>,
     <<"I", "D", "F", " ", "a", "n", "d", " ", "i", "d", "f">>, <<"I", "D", "F", " ", "h", "i", "t", " ", "I", "D", "F">>, <<"T", "e", "h", "r", "a", "n", ",", " ", "T", "e", "h", "r", "a", "n", "!">>,
     <<"F", "-", "1", "6", " ", "d", "o", "w", "n">>, <<"F", "-", "1", "6", " ", "a", "n", "d", " ", "F", "-", "1", "6">>, <<"F", "-", "1", "6", " ", "a", "n", "d", " ", "f", "-", "1", "6">>,
     <<"P", "a", "t", "r", "i", "o", "t", " ", "f", "i", "r", "e", "d", " ", "a", "t", " ", "S", "U", "-", "2", "7">>, <<"H", "a", "m", "a", "s", " ", "a", "n", "d", " ", "H", "A", "M", "A", "S">>, <<"H", "a", "m", "a", "s", " ", "h", "i", "t">>,
     <<"I", "D", "F", " ", "F", "-", "1", "6", " ", "h", "i", "t", " ", "H", "a", "m", "a", "s", " ", "i", "n", " ", "T", "e", "h", "r", "a", "n">>, <<"C", "I", "A", " ", "a", "n", "d", " ", "M", "o", "s", "s", "a", "d">>}

FingerprintInputs ==
    {[op |-> "input", fn |-> "normalize_text", text |-> text] :
        text \in ShortTexts \cup LongTexts}
    \cup {[op |-> "input", fn |-> "generate_event_hash", text |-> text,
           entities |-> entities, urls |-> urls] :
            text \in HashTexts,
            entities \in UNION {[1..n -> HashEntities] : n \in 0..MaxEntities},
            urls \in UNION {[1..n -> HashUrls] : n \in 0..MaxUrls}}
    \cup {[op |-> "input", fn |-> "extract_entities", text |-> text, nlp |-> nlp] :
            text \in EntityTexts, nlp \in BOOLEAN}

\* normalize_text(text): of the text drawn, and then of the text it returned
NormalizeText ==
    /\ \/ fcall.op = "input" /\ fcall.fn = "normalize_text"
       \/ fcall.op = "normalize_text" /\ fcall.text # fcall.result
    /\ LET text == IF fcall.op = "input" THEN fcall.text ELSE fcall.result
       IN  fcall' = [op |-> "normalize_text", text |-> text,
                     result |-> normalize_text(text)]
    /\ UNCHANGED <<cvars, sentence_model, svars, pvars, dvars, rvars, tvars>>

\* generate_event_hash(text, entities, urls) with both lists given
GenerateEventHash ==
    /\ fcall.op = "input"
    /\ fcall.fn = "generate_event_hash"
    /\ fcall' = [op |-> "generate_event_hash", text |-> fcall.text,
                 entities |-> fcall.entities, urls |-> fcall.urls,
                 result |-> generate_event_hash(fcall.text, fcall.entities, fcall.urls)]
    /\ UNCHANGED <<cvars, sentence_model, svars, pvars, dvars, rvars, tvars>>

\* extract_entities(text), with the spaCy model loading or failing to load
ExtractEntities ==
    /\ fcall.op = "input"
    /\ fcall.fn = "extract_entities"
    /\ fcall' = [op |-> "extract_entities", text |-> fcall.text, nlp |-> fcall.nlp,
                 found |-> military_matches(fcall.text),
                 result |-> extract_entities(fcall.text, fcall.nlp)]
    /\ UNCHANGED <<cvars, sentence_model, svars, pvars, dvars, rvars, tvars>>

InitFingerprint ==
    /\ conn_type = "sqlite"
    /\ tweets = <<>>
    /\ entity_rows = <<>>
    /\ url_rows = <<>>
    /\ canonical_events = <<>>
    /\ reposts = <<>>
    /\ account_metrics = <<>>
    /\ rcall = NoReliabilityCall
    /\ TimerUnset
    /\ fcall \in FingerprintInputs
    /\ IngestionIdle
    /\ DigestIdle
    /\ pending_headlines = <<>>
    /\ sentence_model = [loaded |-> FALSE, cosine |-> RInt(0)]
    /\ incoming_tweet = NoRecord
    /\ matches = <<>>
    /\ similarity_score = <<>>
    /\ best_match = 0
    /\ best_similarity = RInt(0)
    /\ classification = NoClassification

NextFingerprint ==
    \/ NormalizeText
    \/ GenerateEventHash
    \/ ExtractEntities

SpecFingerprint == InitFingerprint /\ [][NextFingerprint]_vars

(***************************************************************************)
(* Claims about fingerprinting.py (SpecFingerprint)                        *)
(***************************************************************************)

\* C21: normalize_text is idempotent: normalizing a text it returned gives
\* that text back, whatever the text normalized was.
C21_NormalizeIdempotent ==
    fcall.op = "normalize_text" => normalize_text(fcall.result) = fcall.result

Orders(n) == {p \in [1..n -> 1..n] : \A i, j \in 1..n : p[i] = p[j] => i = j}

Permuted(l, p) == [i \in DOMAIN l |-> l[p[i]]]

\* how many times each value occurs in a list
Occurrences(l) ==
    [v \in {l[i] : i \in DOMAIN l} |-> Cardinality({i \in DOMAIN l : l[i] = v})]

RECURSIVE Ascending(_)
\* the values of a multiset, each as often as it occurs, least first
Ascending(occ) ==
    IF DOMAIN occ = {} THEN <<>>
    ELSE LET least == CHOOSE v \in DOMAIN occ : \A w \in DOMAIN occ : ~StrLess(w, v)
         IN  [i \in 1..occ[least] |-> least]
             \o Ascending([v \in DOMAIN occ \ {least} |-> occ[v]])

KeyValues(entities) ==
    LET keyed == SelectSeq(entities, LAMBDA e : e.type \in KeyEntityTypes)
    IN  [k \in DOMAIN keyed |-> Lower(keyed[k].value)]

\* C22: generate_event_hash returns the same hash for every permutation of
\* the entity list and of the URL list, and the hash is a function of the
\* normalized text, of the lower-cased values of the entities of a key type
\* (each as often as it occurs) and of the URLs given (each as often as it
\* occurs), and of nothing else.
C22_HashOrderIndependent ==
    fcall.op = "generate_event_hash" =>
        /\ \A p \in Orders(Len(fcall.entities)), q \in Orders(Len(fcall.urls)) :
              generate_event_hash(fcall.text, Permuted(fcall.entities, p),
                                  Permuted(fcall.urls, q)) = fcall.result
        /\ fcall.result =
              sha256(normalize_text(fcall.text) \o <<"|">>
                     \o join_bar(Ascending(Occurrences(KeyValues(fcall.entities))))
                     \o <<"|">> \o join_bar(Ascending(Occurrences(fcall.urls))))

\* a hash of three entities, two of them of a key type and given in
\* descending order of their values, and of two URLs in descending order
C22_Witness ==
    /\ fcall.op = "generate_event_hash"
    /\ fcall.entities = <<EntTehran, Entity("PERSON", <<"B", "i", "d", "e", "n">>), EntIDF>>
    /\ fcall.urls = <<<<"h", "t", "t", "p", "s", ":", "/", "/", "b", ".", "o", "r", "g", "/", "y">>, <<"h", "t", "t", "p", ":", "/", "/", "a", ".", "c", "o", "m", "/", "x">>>>
    /\ fcall.result = sha256(<<"i", "d", "f", " ", "h", "i", "t", "|", "i", "d", "f", "|", "t", "e", "h", "r", "a", "n", "|", "h", "t", "t", "p", ":", "/", "/", "a", ".", "c", "o", "m", "/", "x", "|", "h", "t", "t", "p", "s", ":", "/", "/", "b", ".", "o", "r", "g", "/", "y">>)

\* C30: the list extract_entities returns holds no two entities of one type
\* whose values are equal ignoring case, whether they come from the language
\* model, the weapon patterns or the military-organisation patterns; and a
\* military-organisation match whose value equals ignoring case the value of
\* an entity extracted before it is not added.
C30_NoDuplicateEntities ==
    fcall.op = "extract_entities" =>
        /\ \A i, j \in DOMAIN fcall.result :
              /\ fcall.result[i].type = fcall.result[j].type
              /\ Lower(fcall.result[i].value) = Lower(fcall.result[j].value)
              => i = j
        /\ \A i, j \in DOMAIN fcall.result :
              /\ i < j
              /\ fcall.result[j].type = "MILITARY_ORG"
              => Lower(fcall.result[i].value) # Lower(fcall.result[j].value)

\* the part of C30 about the military-organisation matches alone
MilitaryOrgAddedOnce ==
    fcall.op = "extract_entities" =>
        \A i, j \in DOMAIN fcall.result :
            /\ i < j
            /\ fcall.result[j].type = "MILITARY_ORG"
            => Lower(fcall.result[i].value) # Lower(fcall.result[j].value)

(***************************************************************************)
(* Claims about process_tweet as a whole (specification Spec)              *)
(***************************************************************************)

\* a report without id, without username or without text
LacksField(tweet_data) ==
    \/ tweet_data.id = ""
    \/ tweet_data.username = ""
    \/ tweet_data.text = <<>>

\* the call of p was given such a report
RejectedCall(p) ==
    /\ frame[p] # NoFrame
    /\ LacksField(frame[p].tweet_data)

\* C23: process_tweet given a report without id, username or text returns the
\* error result 'Missing required fields'; it computes no fingerprint, looks
\* up no candidate, classifies nothing and writes nothing: the step that
\* takes the report is the whole call, and it leaves every table as it was.
C23_MissingFieldsRejected ==
    /\ [](\A p \in Procs :
            RejectedCall(p) =>
                /\ pc[p] = "idle"
                /\ frame[p].result = "error"
                /\ frame[p].message = "Missing required fields"
                /\ frame[p].tweet_record = NoRecord
                /\ frame[p].similar_tweets = <<>>
                /\ frame[p].classification = NoClassification
                /\ frame[p].tweet_db_id = NoId)
    /\ [][\A p \in Procs :
            (/\ pc[p] = "idle"
             /\ calls' # calls
             /\ \A q \in Procs \ {p} : frame'[q] = frame[q]
             /\ LacksField(frame'[p].tweet_data))
            => svars' = svars /\ pc' = pc]_vars

\* a report without text, one without id and one without username were
\* rejected while a stored report, its event and its metrics stayed
C23_Witness ==
    /\ RejectedCall("stream")
    /\ frame["stream"].tweet_data.text = <<>>
    /\ RejectedCall("poll")
    /\ frame["poll"].tweet_data.id = ""
    /\ frame["poll"].message = "Missing required fields"
    /\ calls = MaxCalls
    /\ Len(tweets) = 1
    /\ Len(canonical_events) = 1
    /\ DOMAIN account_metrics # {}

C23_WitnessNoUsername ==
    /\ RejectedCall("stream")
    /\ frame["stream"].tweet_data.username = ""
    /\ frame["stream"].result = "error"

\* the rows of tweets that hold the report of p's call
StoredReport(p) == tweet_ids_of(frame[p].tweet_record.tweet_id)

\* nothing of the report of p's call is stored: no row of tweets, no entity
\* or URL row, no event it is the first report of, no link
NothingStored(p) ==
    /\ StoredReport(p) = {}
    /\ frame[p].tweet_db_id = NoId
    /\ \A k \in DOMAIN entity_rows : entity_rows[k].tweet_id \notin StoredReport(p)
    /\ \A k \in DOMAIN url_rows : url_rows[k].tweet_id \notin StoredReport(p)
    /\ \A k \in DOMAIN canonical_events :
          canonical_events[k].first_tweet_id \notin StoredReport(p)
    /\ \A k \in DOMAIN reposts : reposts[k].repost_tweet_id \notin StoredReport(p)

\* everything of the report of p's call is stored: its row, a row for each
\* entity and URL, the event of an ORIGINAL or the link of a REPOST or
\* UPDATE, and the count in the row of its source
EverythingStored(p) ==
    LET tweet_record == frame[p].tweet_record
        status == frame[p].classification.status
    IN  /\ frame[p].tweet_db_id \in StoredReport(p)
        /\ \A e \in Range(tweet_record.entities) :
              \E k \in DOMAIN entity_rows :
                  /\ entity_rows[k].tweet_id = frame[p].tweet_db_id
                  /\ entity_rows[k].entity_type = e.type
                  /\ entity_rows[k].entity_value = e.value
        /\ \A u \in Range(tweet_record.urls_canonical) :
              \E k \in DOMAIN url_rows :
                  /\ url_rows[k].tweet_id = frame[p].tweet_db_id
                  /\ url_rows[k].url_canonical = u
        /\ status = "ORIGINAL" =>
              \E k \in DOMAIN canonical_events :
                  /\ canonical_events[k].id = frame[p].classification.canonical_event_id
                  /\ canonical_events[k].event_hash = tweet_record.event_hash
        /\ status \in {"REPOST", "UPDATE"} =>
              \E k \in DOMAIN reposts :
                  /\ reposts[k].repost_tweet_id = frame[p].tweet_db_id
                  /\ reposts[k].classification = status
        /\ tweet_record.author \in DOMAIN account_metrics
        /\ account_metrics[tweet_record.author].total_tweets_tracked >= 1

\* the part of C24 about the calls that return success
SuccessIsComplete ==
    \A p \in Procs : frame[p].result = "success" => EverythingStored(p)

\* C24: process_tweet leaves no partially-applied state: when a call that
\* passed validation returns the error result, nothing of its report is
\* stored (no report row, entity or URL row, event or link), and when a call
\* returns success, everything of it is stored.
C24_NoPartialState ==
    \A p \in Procs :
        /\ (frame[p].result = "error" /\ frame[p].tweet_record # NoRecord) => NothingStored(p)
        /\ frame[p].result = "success" => EverythingStored(p)

\* C25: the candidates process_tweet compares a report with are rows of
\* find_similar_tweets, which carry no entities, no canonical URLs and no
\* media hashes; so no candidate scores above 40, every report that passes
\* validation is classified ORIGINAL, and process_tweet never writes a link
\* and never raises a repost or update count of an event.
C25_AlwaysOriginal ==
    /\ \A p \in Procs :
          /\ \A k \in DOMAIN frame[p].similar_tweets :
                /\ frame[p].similar_tweets[k].entities = <<>>
                /\ frame[p].similar_tweets[k].urls_canonical = <<>>
                /\ frame[p].similar_tweets[k].media_hashes = <<>>
                /\ ~RGt(calculate_similarity_score(frame[p].tweet_record,
                                                   frame[p].similar_tweets[k]),
                        RInt(40))
          /\ frame[p].classification # NoClassification =>
                frame[p].classification.status = "ORIGINAL"
    /\ reposts = <<>>
    /\ \A k \in DOMAIN canonical_events :
          /\ canonical_events[k].repost_count = 0
          /\ canonical_events[k].update_count = 0

\* a report with an entity, compared with a stored report of the same
\* normalized text whose entity is in the entities table: the candidate
\* scores exactly 40 and the report is stored as ORIGINAL with confidence 60
C25_Witness ==
    \E p \in Procs :
        /\ frame[p].result = "success"
        /\ frame[p].tweet_record.entities # <<>>
        /\ Len(frame[p].similar_tweets) = 1
        /\ \E k \in DOMAIN entity_rows :
              entity_rows[k].tweet_id = frame[p].similar_tweets[1].id
        /\ calculate_similarity_score(frame[p].tweet_record, frame[p].similar_tweets[1])
              = RInt(40)
        /\ frame[p].classification.status = "ORIGINAL"
        /\ frame[p].classification.confidence = RInt(60)

(***************************************************************************)
(* Claims about post_digest and the timer (SpecDigest)                     *)
(***************************************************************************)

\* the headlines pending that the snapshot of thread t's call does not hold
Unseen(t) == Range(pending_headlines) \ Range(dframe[t].headlines)

C26_WitnessBeforeClear ==
    \E t \in Threads :
        /\ dframe[t].op = "post_digest"
        /\ dpc[t] = "clear_locked"
        /\ Unseen(t) # {}

(***************************************************************************)
(* process_tweet from classify_tweet on, for candidates that carry their   *)
(* entities, media hashes and URLs and their timestamps as datetimes       *)
(* (SpecLink). The store holds a first report with its event and a second  *)
(* report of the same event hash, which has no event of its own            *)
(***************************************************************************)
\* a row of tweets as insert_tweet writes it
StoredRow(id, tweet_data) ==
    [id |-> id,
     tweet_id |-> tweet_data.tweet_id,
     author |-> tweet_data.author,
     author_tier |-> tweet_data.author_tier,
     text |-> tweet_data.text,
     text_normalized |-> tweet_data.text_normalized,
     text_hash |-> tweet_data.text_hash,
     event_hash |-> tweet_data.event_hash,
     timestamp_utc |-> tweet_data.timestamp_utc,
     timestamp_et |-> tweet_data.timestamp_et,
     display_time |-> tweet_data.display_time]

\* the two reports stored before, 10 minutes apart, and the two in process
StoredReports ==
    <<[id |-> "1", username |-> "alice", text |-> TextIdfHit, created_at |-> 0],
      [id |-> "2", username |-> "bob", text |-> TextIdfHitBang, created_at |-> 600],
      [id |-> "3", username |-> "carol", text |-> TextIdfHit, created_at |-> 1200],
      [id |-> "4", username |-> "dave", text |-> TextIdfHitBang, created_at |-> 1500]>>

\* tweet_record of each of the four reports
LinkRecords ==
    [i \in DOMAIN StoredReports |-> tweet_record_of(StoredReports[i], TRUE)]

\* the rows of tweets of the two stored reports
LinkTweets(records) ==
    [i \in 1..2 |-> StoredRow(i, records[i])]

\* the event of a first report, as create_canonical_event wrote it
LinkEvent(first) ==
    [id |-> 1,
     event_hash |-> first.event_hash,
     first_tweet_id |-> first.id,
     first_timestamp_utc |-> first.timestamp_utc,
     first_timestamp_et |-> first.timestamp_et,
     first_display_time |-> first.display_time,
     first_author |-> first.author,
     claim_summary |-> first.text,
     repost_count |-> 0,
     update_count |-> 0,
     last_updated |-> 0]

\* the rows of account_metrics after the two stored reports
LinkMetrics(rows) ==
    [a \in {rows[i].author : i \in DOMAIN rows} |->
        [tier |-> rows[CHOOSE i \in DOMAIN rows : rows[i].author = a].author_tier,
         total_tweets_tracked |-> 1,
         total_original_reports |-> 1,
         total_reposts |-> 0,
         total_updates |-> 0]]

\* tweet_record of a report in process, with media hashes and one or two URLs
LinkIncoming(tweet_record) ==
    {[tweet_record EXCEPT !.media_hashes = media, !.urls_canonical = urls] :
        media \in {<<>>, <<"m1">>}, urls \in {<<"u1">>, <<"u1", "u2">>}}

\* the candidate lists: the first report (of event 1) or the second report
\* (of no event), with its entity, its URL and with or without a media hash
LinkCandidates(rows) ==
    {<<[dict_from_row(rows[c[1]], c[2]) EXCEPT !.entities = <<EntIDF>>,
                                               !.media_hashes = media,
                                               !.urls_canonical = <<"u1">>]>> :
        c \in {<<1, 1>>, <<2, NoId>>}, media \in {<<>>, <<"m1">>}}

\* the frame of a call that has its candidates
LinkFrame(i, incoming, ms) ==
    [NoFrame EXCEPT !.tweet_data = StoredReports[i],
                    !.tweet_record = incoming,
                    !.similar_tweets = ms]

\* the frames of the two calls
LinkFrames(records, rows) ==
    {[p \in Procs |-> IF p = "stream" THEN LinkFrame(3, first[1], first[2])
                      ELSE LinkFrame(4, second[1], second[2])] :
        first \in LinkIncoming(records[3]) \X LinkCandidates(rows),
        second \in LinkIncoming(records[4]) \X LinkCandidates(rows)}

\* classification = classify_tweet(tweet_record, similar_tweets)
ClassifyTweet(p) ==
    /\ pc[p] = "classify_tweet"
    /\ frame' = [frame EXCEPT ![p].classification =
                     classify_tweet(frame[p].tweet_record, frame[p].similar_tweets)]
    /\ pc' = [pc EXCEPT ![p] = "insert_tweet"]
    /\ UNCHANGED <<svars, returned, calls, nlp_loaded, cvars, sentence_model>>
    /\ UNCHANGED <<dvars, rvars, fvars, tvars>>

InitLink ==
    /\ sentence_model = [loaded |-> FALSE, cosine |-> RInt(0)]
    /\ conn_type = "sqlite"
    /\ \E records \in {LinkRecords} :
          \E rows \in {LinkTweets(records)} :
              /\ tweets = rows
              /\ canonical_events = <<LinkEvent(rows[1])>>
              /\ account_metrics = LinkMetrics(rows)
              /\ frame \in LinkFrames(records, rows)
    /\ entity_rows = <<>>
    /\ url_rows = <<>>
    /\ reposts = <<>>
    /\ nlp_loaded = [p \in Procs |-> TRUE]
    /\ pc = [p \in Procs |-> "classify_tweet"]
    /\ calls = 2
    /\ returned = {}
    /\ DigestIdle
    /\ pending_headlines = <<>>
    /\ rcall = NoReliabilityCall
    /\ TimerUnset
    /\ fcall = NoFingerprintCall
    /\ incoming_tweet = NoRecord
    /\ matches = <<>>
    /\ similarity_score = <<>>
    /\ best_match = 0
    /\ best_similarity = RInt(0)
    /\ classification = NoClassification

NextLink ==
    \E p \in Procs :
        \/ ClassifyTweet(p)
        \/ InsertTweetSelect(p)
        \/ InsertTweetInsert(p)
        \/ InsertEntitiesAndUrls(p)
        \/ HandleClassification(p)
        \/ UpdateAccountMetrics(p)

SpecLink == InitLink /\ [][NextLink]_vars

(***************************************************************************)
(* Claims about the links and the counts (SpecLink)                        *)
(***************************************************************************)
\* the links to an event of one classification
LinksOf(event_id, status) ==
    {k \in DOMAIN reposts : /\ reposts[k].canonical_event_id = event_id
                            /\ reposts[k].classification = status}

\* the links made for a stored report
LinksFor(tweet_db_id) ==
    {k \in DOMAIN reposts : reposts[k].repost_tweet_id = tweet_db_id}

\* the count of an event a link of this classification is counted in
CountOf(event, status) ==
    IF status = "REPOST" THEN event.repost_count ELSE event.update_count

\* the row of account_metrics of a source, zero counts when it has none
SourceCount(metrics, account, status) ==
    IF account \notin DOMAIN metrics THEN 0
    ELSE IF status = "REPOST" THEN metrics[account].total_reposts
    ELSE metrics[account].total_updates

\* the step of a call that handles its classification links the report to
\* the event of the best candidate and raises that event's count
LinkedStep(p) ==
    LET result == frame[p].classification
    IN  /\ Len(reposts') = Len(reposts) + 1
        /\ SubSeq(reposts', 1, Len(reposts)) = reposts
        /\ reposts'[Len(reposts')].repost_tweet_id = frame[p].tweet_db_id
        /\ reposts'[Len(reposts')].canonical_event_id = result.canonical_event_id
        /\ reposts'[Len(reposts')].classification = result.status
        /\ \A k \in DOMAIN canonical_events :
              /\ canonical_events'[k].id = canonical_events[k].id
              /\ \A status \in {"REPOST", "UPDATE"} :
                    CountOf(canonical_events'[k], status) =
                        CountOf(canonical_events[k], status) +
                        (IF /\ canonical_events[k].id = result.canonical_event_id
                            /\ status = result.status
                         THEN 1 ELSE 0)

\* C27: a call whose report is classified REPOST or UPDATE creates a link and
\* raises the event's repost or update count only when the best candidate
\* carries a canonical_event_id; when it carries none, no link is created and
\* no event changes; update_account_metrics counts the report as a repost or
\* an update of its source in both cases
C27_LinkOnlyToFirstReport ==
    [][\A p \in Procs :
          LET result == frame[p].classification
              author == frame[p].tweet_record.author
          IN  /\ (/\ pc[p] = "handle_classification"
                  /\ pc'[p] # pc[p]
                  /\ result.status \in {"REPOST", "UPDATE"})
                 => IF result.canonical_event_id # NoId
                    THEN LinkedStep(p)
                    ELSE /\ reposts' = reposts
                         /\ canonical_events' = canonical_events
              /\ (/\ pc[p] = "update_account_metrics"
                  /\ pc'[p] # pc[p]
                  /\ result.status \in {"REPOST", "UPDATE"})
                 => /\ SourceCount(account_metrics', author, result.status) =
                           SourceCount(account_metrics, author, result.status) + 1
                    /\ reposts' = reposts
                    /\ canonical_events' = canonical_events]_vars

\* a finished call whose report was classified REPOST against the second
\* stored report: no link, no count of the event, one repost of its source
C27_Witness ==
    \E p \in Procs :
        /\ frame[p].result = "success"
        /\ frame[p].classification.status = "REPOST"
        /\ frame[p].classification.canonical_event_id = NoId
        /\ frame[p].classification.original_tweet_id = "2"
        /\ LinksFor(frame[p].tweet_db_id) = {}
        /\ \A k \in DOMAIN canonical_events :
              canonical_events[k].repost_count = Cardinality(LinksOf(canonical_events[k].id, "REPOST"))
        /\ account_metrics[frame[p].tweet_record.author].total_reposts = 1

\* a finished call whose report was classified UPDATE against the first
\* report of event 1: linked and counted
C27_WitnessLinked ==
    \E p \in Procs :
        /\ frame[p].result = "success"
        /\ frame[p].classification.status = "UPDATE"
        /\ frame[p].classification.canonical_event_id = 1
        /\ Cardinality(LinksFor(frame[p].tweet_db_id)) = 1
        /\ account_metrics[frame[p].tweet_record.author].total_updates = 1

\* C28: in every state each event's repost_count is the number of links to
\* it classified REPOST and its update_count the number classified UPDATE;
\* every step that changes the links appends exactly one link and raises
\* exactly the matching count by 1, the earlier links stay as they were, and
\* no count ever decreases
C28_CountsMatchLinks ==
    /\ [](\A k \in DOMAIN canonical_events :
            /\ canonical_events[k].repost_count =
                   Cardinality(LinksOf(canonical_events[k].id, "REPOST"))
            /\ canonical_events[k].update_count =
                   Cardinality(LinksOf(canonical_events[k].id, "UPDATE")))
    /\ [][/\ Len(reposts') >= Len(reposts)
          /\ SubSeq(reposts', 1, Len(reposts)) = reposts
          /\ \A k \in DOMAIN canonical_events :
                /\ k \in DOMAIN canonical_events'
                /\ canonical_events'[k].repost_count >= canonical_events[k].repost_count
                /\ canonical_events'[k].update_count >= canonical_events[k].update_count
          /\ reposts' # reposts =>
                LET link == reposts'[Len(reposts')]
                IN  /\ Len(reposts') = Len(reposts) + 1
                    /\ \A k \in DOMAIN canonical_events :
                          \A status \in {"REPOST", "UPDATE"} :
                              CountOf(canonical_events'[k], status) =
                                  CountOf(canonical_events[k], status) +
                                  (IF /\ canonical_events[k].id = link.canonical_event_id
                                      /\ status = link.classification
                                   THEN 1 ELSE 0)]_vars

\* event 1 after one report was linked as a repost and one as an update
C28_Witness ==
    /\ Len(reposts) = 2
    /\ \E k \in DOMAIN canonical_events :
          /\ canonical_events[k].id = 1
          /\ canonical_events[k].repost_count = 1
          /\ canonical_events[k].update_count = 1
          /\ Cardinality(LinksOf(1, "REPOST")) = 1
          /\ Cardinality(LinksOf(1, "UPDATE")) = 1

(***************************************************************************)
(* digest.py: check_digest_timer, called by the threads while the clock    *)
(* advances and headlines are added (SpecTimer)                            *)
(***************************************************************************)
DIGEST_INTERVAL_MINUTES == 30

\* the clock stops here
MaxClock == 3600

\* the time between two looks at the clock, in seconds
ClockSteps == {899, 900}

\* an interval that has elapsed only when it is exceeded
interval_exceeded(now, last) ==
    RGt(Frac(now - last, 60), RInt(DIGEST_INTERVAL_MINUTES))

\* elapsed = (now - _last_digest_time).total_seconds() / 60;
\* elapsed >= DIGEST_INTERVAL_MINUTES
interval_elapsed(now, last) ==
    RGe(Frac(now - last, 60), RInt(DIGEST_INTERVAL_MINUTES))

\* time passes
Tick(seconds) ==
    /\ current_time + seconds <= MaxClock
    /\ current_time' = current_time + seconds
    /\ UNCHANGED <<last_digest_time, cvars, sentence_model, svars, pvars, dvars, rvars, fcall>>

\* check_digest_timer up to the test of the interval: the first call sets the
\* timer and returns None; a call before the interval has elapsed returns None
CheckDigestTimer(t) ==
    /\ dpc[t] = "idle"
    /\ dframe' = [dframe EXCEPT ![t] = [NoCall EXCEPT !.op = "check_digest_timer",
                                                      !.now = current_time]]
    /\ IF last_digest_time = NoTime
       THEN /\ last_digest_time' = current_time
            /\ UNCHANGED dpc
       ELSE IF interval_elapsed(current_time, last_digest_time)
       THEN /\ dpc' = [dpc EXCEPT ![t] = "timer_lock"]
            /\ UNCHANGED last_digest_time
       ELSE UNCHANGED <<dpc, last_digest_time>>
    /\ UNCHANGED <<current_time, pending_headlines, lock, adds, cvars, sentence_model, svars,
                   pvars, rvars, fcall>>

\* headlines = get_pending_headlines() of check_digest_timer, under the lock:
\* post_digest is called when there are headlines; the timer is reset and None
\* returned when there are none
TimerPendingHeadlines(t) ==
    /\ dpc[t] = "timer_locked"
    /\ lock' = NoneStr
    /\ IF pending_headlines # <<>>
       THEN /\ dpc' = [dpc EXCEPT ![t] = "get_lock"]
            /\ UNCHANGED last_digest_time
       ELSE /\ dpc' = [dpc EXCEPT ![t] = "idle"]
            /\ last_digest_time' = dframe[t].now
    /\ UNCHANGED <<current_time, pending_headlines, dframe, adds, cvars, sentence_model, svars,
                   pvars, rvars, fcall>>

\* post_digest has returned: _last_digest_time = now; return result
ResetTimer(t) ==
    /\ dpc[t] = "reset_timer"
    /\ last_digest_time' = dframe[t].now
    /\ dpc' = [dpc EXCEPT ![t] = "idle"]
    /\ UNCHANGED <<current_time, pending_headlines, lock, dframe, adds, cvars, sentence_model,
                   svars, pvars, rvars, fcall>>

\* the headlines added while the timer runs
TimerHeadlines ==
    {Headline("raid", "carol", 10, 83, <<EntMilitaryIDF, EntTehran>>, 2)}

InitTimer ==
    /\ pending_headlines = <<>>
    /\ DigestIdle
    /\ rcall = NoReliabilityCall
    /\ TimerUnset
    /\ fcall = NoFingerprintCall
    /\ conn_type = "sqlite"
    /\ StoreEmpty
    /\ IngestionIdle
    /\ sentence_model = [loaded |-> FALSE, cosine |-> RInt(0)]
    /\ incoming_tweet = NoRecord
    /\ matches = <<>>
    /\ similarity_score = <<>>
    /\ best_match = 0
    /\ best_similarity = RInt(0)
    /\ classification = NoClassification

NextTimer ==
    \/ \E seconds \in ClockSteps : Tick(seconds)
    \/ \E t \in Threads :
          \/ CheckDigestTimer(t)
          \/ AcquireLock(t)
          \/ TimerPendingHeadlines(t)
          \/ GetPendingHeadlines(t)
          \/ \E tweet_id \in {"9001", NoneStr} : PostTweet(t, tweet_id)
          \/ ClearPendingHeadlines(t)
          \/ ResetTimer(t)
          \/ \E headline_data \in TimerHeadlines : AddHeadline(t, headline_data)
          \/ FilterHeadline(t)
          \/ AppendHeadline(t)

SpecTimer == InitTimer /\ [][NextTimer]_vars

(***************************************************************************)
(* Claims about check_digest_timer (SpecTimer)                             *)
(***************************************************************************)
IntervalSeconds == DIGEST_INTERVAL_MINUTES * 60

\* thread t calls check_digest_timer in this step
TimerCalled(t) ==
    /\ dpc[t] = "idle"
    /\ dframe'[t].op = "check_digest_timer"
    /\ dframe'[t].now = current_time
    /\ dframe'[t] # dframe[t] \/ dpc'[t] # dpc[t]

\* thread t is in a call of check_digest_timer that went past the interval test
InTimerCall(t) ==
    /\ dframe[t].op = "check_digest_timer"
    /\ dpc[t] # "idle"

\* thread t is in post_digest, called by check_digest_timer
Attempting(t) ==
    /\ dframe[t].op = "check_digest_timer"
    /\ dpc[t] \in {"get_lock", "get_locked", "post_tweet", "clear_lock", "clear_locked"}

\* C29: the first call of check_digest_timer only sets the timer and returns
\* None; a later call goes on to the queue exactly when at least
\* DIGEST_INTERVAL_MINUTES (30) have passed since the timer was set, and calls
\* post_digest only when the queue is not empty; a call that went on sets the
\* timer to its own time when it returns, whether post_digest returned an id or
\* None and when the queue was empty; a publish that fails leaves the queue as
\* it was
C29_TimerResetAfterAttempt ==
    /\ [][\A t \in Threads :
          /\ (TimerCalled(t) /\ last_digest_time = NoTime)
             => /\ dpc'[t] = "idle"
                /\ dframe'[t].result = NoneStr
                /\ last_digest_time' = current_time
                /\ pending_headlines' = pending_headlines
          /\ (TimerCalled(t) /\ last_digest_time # NoTime)
             => /\ last_digest_time' = last_digest_time
                /\ pending_headlines' = pending_headlines
                /\ IF current_time - last_digest_time >= IntervalSeconds
                   THEN InTimerCall(t)' /\ ~Attempting(t)'
                   ELSE dpc'[t] = "idle" /\ dframe'[t].result = NoneStr
          /\ (~Attempting(t) /\ Attempting(t)')
             => /\ InTimerCall(t)
                /\ pending_headlines # <<>>
                /\ last_digest_time' = last_digest_time
          /\ (Attempting(t) /\ dpc[t] = "post_tweet" /\ dpc'[t] = "reset_timer")
             => /\ pending_headlines' = pending_headlines
                /\ dframe'[t].result = NoneStr
          /\ (InTimerCall(t) /\ dpc'[t] = "idle")
             => /\ last_digest_time' = dframe[t].now
                /\ dframe'[t] = dframe[t]
                /\ dframe[t].tweet_id = NoneStr => dframe[t].result = NoneStr]_vars
    /\ [][last_digest_time' # last_digest_time =>
              \E t \in Threads : \/ TimerCalled(t) /\ last_digest_time = NoTime
                                 \/ InTimerCall(t) /\ dpc'[t] = "idle"]_vars

\* a call that found the interval elapsed and the queue filled, whose publish
\* failed: it returned None, the queue is as it was and the timer is at the
\* time of that call, so that the next attempt is a full interval later
C29_Witness ==
    \E t \in Threads :
        /\ dframe[t].op = "check_digest_timer"
        /\ dpc[t] = "idle"
        /\ dframe[t].tweet_text # NoTweet
        /\ dframe[t].tweet_id = NoneStr
        /\ dframe[t].result = NoneStr
        /\ pending_headlines # <<>>
        /\ dframe[t].now = IntervalSeconds
        /\ last_digest_time = dframe[t].now
        /\ current_time - last_digest_time = IntervalSeconds - 1

\* a call whose publish succeeded: the queue is empty, the timer reset
C29_WitnessPosted ==
    \E t \in Threads :
        /\ dframe[t].op = "check_digest_timer"
        /\ dpc[t] = "idle"
        /\ dframe[t].result = "9001"
        /\ last_digest_time = dframe[t].now

\* a call that found the interval elapsed and the queue empty: timer reset
C29_WitnessEmptyQueue ==
    \E t \in Threads :
        /\ dframe[t].op = "check_digest_timer"
        /\ dpc[t] = "idle"
        /\ dframe[t].now >= IntervalSeconds
        /\ dframe[t].tweet_text = NoTweet
        /\ last_digest_time = dframe[t].now
        /\ pending_headlines = <<>>
        /\ adds = 0

====
